---- MODULE Spec2Model ----
(***************************************************************************)
(* DualPipe: the bidirectional pipeline-parallel scheduler of              *)
(* src/dualpipe/dualpipe.py.  Every rank of the process group owns one     *)
(* DualPipe object and runs step(): an eight-phase program of receive,     *)
(* compute, send and weight-flush calls.  Ranks interact only through the  *)
(* batched point-to-point exchange issued by _commit_and_wait_comm.        *)
(*                                                                         *)
(* dp[g] is the DualPipe object (and the process-wide WeightGradStore) of  *)
(* the process with group rank g; isend/irecv are the point-to-point       *)
(* operations every process has issued to the transport so far.            *)
(***************************************************************************)
EXTENDS Integers, Sequences, FiniteSets, TLC

VARIABLES cfg, dp, isend, irecv, sched

vars == <<cfg, dp, isend, irecv, sched>>

(***************************************************************************)
(* Bounds of the model.                                                    *)
(***************************************************************************)
\* num_ranks ranges over 2, 4, .., 2 * MaxHalfRanks
MaxHalfRanks == 2
\* num_chunks ranges over the even numbers from 2*num_ranks, the least
\* step() accepts, up to MaxChunks
MaxChunks == 10
\* the schedule tabulation (SchedSpec) covers 2, 4, .., 2 * MaxSchedHalfRanks ranks
MaxSchedHalfRanks == 4
\* and num_chunks up to 2*num_ranks + 2*MaxSchedExtraPairs
MaxSchedExtraPairs == 3

(***************************************************************************)
(* Python values.                                                          *)
(***************************************************************************)
\* None, where an integer is expected (a rank that does not exist)
None == -1

\* a ^ b on a phase index and a bool
Xor(phase, b) == IF b THEN 1 - phase ELSE phase

\* seq[i] for a Python list held as a TLA+ sequence; i may be negative
PyIndex(seq, i) == IF i < 0 THEN seq[Len(seq) + i + 1] ELSE seq[i + 1]

\* the two-element tuples (x[0], x[1]) indexed by a phase
At(pair, phase) == pair[phase + 1]

Put(pair, phase, v) == [pair EXCEPT ![phase + 1] = v]

\* lst[i] = v on a Python list
SetItem(lst, i, v) == [lst EXCEPT ![i + 1] = v]

InRange(lst, i) == i >= 0 /\ i < Len(lst)

\* an index a Python list of len entries accepts: -len .. len - 1
PyIndexOk(len, i) == i >= 0 - len /\ i < len

(***************************************************************************)
(* Topology: DualPipe.__init__                                             *)
(***************************************************************************)
\* rank_mapping defaults to list(range(num_ranks))
default_rank_mapping(num_ranks) == [i \in 1..num_ranks |-> i - 1]

\* an inverse mapping that is the mapping itself, with the slot of None
rank_inverse_mapping_not_inverted(num_ranks, rank_mapping) ==
    [j \in 1..(num_ranks + 1) |-> IF j <= num_ranks THEN rank_mapping[j] ELSE None]

\* rank_inverse_mapping: num_ranks + 1 slots of None, then slot
\* rank_mapping[i] is set to i for i = 0 .. num_ranks - 1 in turn: a slot
\* written more than once keeps the last i, a negative entry counts from
\* the end
rank_inverse_mapping(num_ranks, rank_mapping) ==
    [j \in 1..(num_ranks + 1) |->
        LET writers == {i \in 0..(num_ranks - 1) :
                          \/ rank_mapping[i + 1] = j - 1
                          \/ rank_mapping[i + 1] = j - 1 - (num_ranks + 1)}
        IN  IF writers = {} THEN None
            ELSE CHOOSE i \in writers : \A k \in writers : k <= i]

\* the loop that fills rank_inverse_mapping raises IndexError: rank_mapping
\* has fewer than num_ranks entries, or an entry that is no index of the
\* num_ranks + 1 slots
rank_mapping_raises(num_ranks, rank_mapping) ==
    \/ Len(rank_mapping) < num_ranks
    \/ \E i \in 1..num_ranks : ~PyIndexOk(num_ranks + 1, rank_mapping[i])

is_middle_rank(num_ranks, rank) ==
    num_ranks > 2 /\ (rank = (num_ranks \div 2) - 1 \/ rank = num_ranks \div 2)

\* __init__ for the process with group rank g: the object after
\* construction, or the exception raised in place of it. on_device: the
\* parameters of modules[0] are on the current CUDA device
DualPipeInit(num_ranks, g, rank_mapping, overlaped, on_device) ==
    LET inv  == rank_inverse_mapping(num_ranks, rank_mapping)
        rank == rank_mapping[g + 1]
    IN  IF ~on_device THEN [raises |-> "AssertionError"]
        ELSE IF rank_mapping_raises(num_ranks, rank_mapping) THEN [raises |-> "IndexError"]
        ELSE IF ~PyIndexOk(num_ranks + 1, rank - 1) \/ ~PyIndexOk(num_ranks + 1, rank + 1)
             THEN [raises |-> "IndexError"]
        ELSE
        [ num_ranks |-> num_ranks,
          overlaped_forward_backward |-> overlaped,
          rank |-> rank,
          first_rank |-> PyIndex(inv, 0),
          prev_rank |-> PyIndex(inv, rank - 1),
          next_rank |-> PyIndex(inv, rank + 1),
          last_rank |-> PyIndex(inv, num_ranks - 1),
          is_first_rank |-> rank = 0,
          is_last_rank |-> rank = num_ranks - 1,
          is_in_second_half |-> rank >= num_ranks \div 2,
          is_middle_rank |-> is_middle_rank(num_ranks, rank) ]

(***************************************************************************)
(* Iteration counts of the eight phases of step()                          *)
(***************************************************************************)
half_rank_of(num_ranks, rank) ==
    IF rank < num_ranks - 1 - rank THEN rank ELSE num_ranks - 1 - rank

\* a warm-up that runs one forward chunk too many
step_1_one_more(num_half_ranks, half_rank) == (num_half_ranks - half_rank - 1) * 2 + 1

step_1(num_half_ranks, half_rank) == (num_half_ranks - half_rank - 1) * 2

\* a second warm-up that runs one pair of forward chunks too few
step_2_one_less(half_rank) == half_rank
step_2(half_rank) == half_rank + 1

step_3(num_half_ranks, half_rank) == num_half_ranks - half_rank - 1

\* a main loop that forgets the iteration of the rank itself
step_4_one_less(half_num_chunks, num_ranks, half_rank) == half_num_chunks - num_ranks + half_rank

step_4(half_num_chunks, num_ranks, half_rank) == half_num_chunks - num_ranks + half_rank + 1

step_5(num_half_ranks, half_rank) == num_half_ranks - half_rank - 1

\* a cool-down that runs one pair of backward chunks too many
step_6_one_more(half_rank) == half_rank + 2

step_6(half_rank) == half_rank + 1

step_7(num_half_ranks, half_rank) == num_half_ranks - half_rank - 1

\* a last phase that leaves one queued unit behind
step_8_one_less(half_rank) == half_rank

step_8(half_rank) == half_rank + 1

\* range(n) of a negative n is empty
RangeLen(n) == IF n < 0 THEN 0 ELSE n

\* the locals of step() that the schedule is computed from
num_half_ranks_of(num_ranks) == num_ranks \div 2

half_num_chunks_of(num_chunks) == num_chunks \div 2

\* step_k of phase k (1..8) on the rank of object s
StepValue(s, k) ==
    LET H == num_half_ranks_of(s.num_ranks)
        h == half_rank_of(s.num_ranks, s.rank)
        c == half_num_chunks_of(s.num_chunks)
    IN  CASE k = 1 -> step_1(H, h)
          [] k = 2 -> step_2(h)
          [] k = 3 -> step_3(H, h)
          [] k = 4 -> step_4(c, s.num_ranks, h)
          [] k = 5 -> step_5(H, h)
          [] k = 6 -> step_6(h)
          [] k = 7 -> step_7(H, h)
          [] k = 8 -> step_8(h)

\* the number of iterations of the loop of phase k: range(step_k)
StepCount(s, k) == RangeLen(StepValue(s, k))

(***************************************************************************)
(* The calls step() makes.  A call is [op, phase, phase1, zb, recv, send]: *)
(* the method and its arguments (zb is the enable_zb argument: "True",     *)
(* "False", or "enable_zb" when the local variable of phase 6 is passed).  *)
(***************************************************************************)
Call(op, phase, phase1, zb, recv, send) ==
    [op |-> op, phase |-> phase, phase1 |-> phase1, zb |-> zb, recv |-> recv, send |-> send]

\* the calls made by step() itself
CallForwardChunk(phase, recv, send) == Call("_forward_chunk", phase, 0, "False", recv, send)
CallBackwardChunk(phase, zb, recv, send) == Call("_backward_chunk", phase, 0, zb, recv, send)
CallForwardBackwardChunk(phase0, phase1, recv0) == Call("_forward_backward_chunk", phase0, phase1, "False", recv0, TRUE)
CallWeightChunk == Call("_weight_chunk", 0, 0, "False", TRUE, TRUE)
CallRecvForward(phase)  == Call("_recv_forward", phase, 0, "False", TRUE, TRUE)
CallSendForward(phase)  == Call("_send_forward", phase, 0, "False", TRUE, TRUE)
CallSendBackward(phase) == Call("_send_backward", phase, 0, "False", TRUE, TRUE)
CallSetEnableZb(zb) == Call("enable_zb", 0, 0, zb, TRUE, TRUE)
CallStep == Call("step", 0, 0, "False", TRUE, TRUE)
CallFinish == Call("finish", 0, 0, "False", TRUE, TRUE)
CallReturn == Call("return", 0, 0, "False", TRUE, TRUE)

\* the calls made inside those
CallRecvBackward(phase) == Call("_recv_backward", phase, 0, "False", TRUE, TRUE)
CallForwardCompute(phase) == Call("_forward_compute_chunk", phase, 0, "False", TRUE, TRUE)
CallBackwardCompute(phase, zb) == Call("_backward_compute_chunk", phase, 0, zb, TRUE, TRUE)
CallForwardBackwardCompute(phase0, phase1) == Call("_forward_backward_compute_chunk", phase0, phase1, "False", TRUE, TRUE)
CallCommitAndWait == Call("_commit_and_wait_comm", 0, 0, "False", TRUE, TRUE)
CallWeightPop == Call("WeightGradStore.pop", 0, 0, "False", TRUE, TRUE)
CallAssertQueueEmpty == Call("assert_funcs_queue_empty", 0, 0, "False", TRUE, TRUE)

If(c, calls) == IF c THEN calls ELSE << >>

\* a forward chunk that posts its send before it has computed
_forward_chunk_send_first(phase, recv, send) ==
    If(recv, <<CallRecvForward(phase)>>)
    \o <<CallCommitAndWait>>
    \o If(send, <<CallSendForward(phase)>>)
    \o <<CallForwardCompute(phase)>>

\* a forward chunk that computes before it waits for its receive
_forward_chunk_compute_first(phase, recv, send) ==
    If(recv, <<CallRecvForward(phase)>>)
    \o <<CallForwardCompute(phase), CallCommitAndWait>>
    \o If(send, <<CallSendForward(phase)>>)

\* _forward_chunk: recv, commit, compute, send
_forward_chunk(phase, recv, send) ==
    If(recv, <<CallRecvForward(phase)>>)
    \o <<CallCommitAndWait, CallForwardCompute(phase)>>
    \o If(send, <<CallSendForward(phase)>>)

\* a backward chunk that posts its send before it has computed
_backward_chunk_send_first(phase, enable_zb, recv, send) ==
    If(recv, <<CallRecvBackward(phase)>>)
    \o <<CallCommitAndWait>>
    \o If(send, <<CallSendBackward(phase)>>)
    \o <<CallBackwardCompute(phase, enable_zb)>>

\* _backward_chunk: recv, commit, compute, send
_backward_chunk(phase, enable_zb, recv, send) ==
    If(recv, <<CallRecvBackward(phase)>>)
    \o <<CallCommitAndWait, CallBackwardCompute(phase, enable_zb)>>
    \o If(send, <<CallSendBackward(phase)>>)

\* _forward_backward_chunk: both receives, commit, compute, both sends
_forward_backward_chunk(phase0, phase1, recv0) ==
    If(recv0, <<CallRecvForward(phase0)>>)
    \o <<CallRecvBackward(phase1), CallCommitAndWait,
         CallForwardBackwardCompute(phase0, phase1),
         CallSendForward(phase0), CallSendBackward(phase1)>>

\* _weight_chunk: nothing in a forward-only step, else commit, pop
_weight_chunk(forward_only) == If(~forward_only, <<CallCommitAndWait, CallWeightPop>>)

\* the end of step(): the assertion on the queue and the last commit
step_finish == <<CallAssertQueueEmpty, CallCommitAndWait>>

\* Step 1: nF0
step_1_body(s, i) == <<CallForwardChunk(0, TRUE, TRUE)>>

\* Step 2: nF0F1, with the _recv_forward(0) that precedes the loop
step_2_body(s, i) ==
    LET n == step_2(half_rank_of(s.num_ranks, s.rank))
    IN  If(i = 0, <<CallRecvForward(0)>>)
        \o <<CallForwardChunk(0, FALSE, s.is_middle_rank),
             CallRecvForward(0),
             CallForwardChunk(1, TRUE, (~s.is_middle_rank) \/ (i < n - 1))>>
        \o If(~s.is_middle_rank, <<CallSendForward(0)>>)

\* Step 3: nB1W1F1
step_3_body(s, i) ==
    <<CallBackwardChunk(1, "True", TRUE, TRUE),
      CallRecvForward(1),
      CallWeightChunk,
      CallForwardChunk(1, FALSE, TRUE)>>

\* a first iteration of step 4 that is fused on the middle ranks too
step_4_first_fused(s, i) ==
    IF i = 0
    THEN <<CallForwardBackwardChunk(0, 1, FALSE)>>
    ELSE <<CallForwardBackwardChunk(0, 1, TRUE)>>

\* the first half of an iteration of step 4
step_4_first(s, i) ==
    IF i = 0
    THEN IF s.is_middle_rank
         THEN <<CallForwardChunk(0, FALSE, FALSE),
                CallSendForward(1),
                CallBackwardChunk(1, "False", TRUE, FALSE),
                CallSendForward(0),
                CallSendBackward(1)>>
         ELSE <<CallForwardBackwardChunk(0, 1, FALSE)>>
    ELSE <<CallForwardBackwardChunk(0, 1, TRUE)>>

\* Step 4 (Main step): nF0B1F1B0
step_4_body(s, i) == step_4_first(s, i) \o <<CallForwardBackwardChunk(1, 0, TRUE)>>

\* Step 5: nB1F1B0
step_5_body(s, i) ==
    <<CallBackwardChunk(1, "False", TRUE, TRUE), CallForwardBackwardChunk(1, 0, TRUE)>>

\* a switch that comes one iteration late
step_6_switch_late(half_rank) == step_6(half_rank) \div 2 + 1

\* the iteration of step 6 at which enable_zb is switched on
step_6_switch(half_rank) == step_6(half_rank) \div 2

\* Step 6: nB1B0, with the enable_zb = False that precedes the loop
step_6_body(s, i) ==
    LET h == half_rank_of(s.num_ranks, s.rank)
    IN  If(i = 0, <<CallSetEnableZb("False")>>)
        \o If(i = step_6_switch(h) /\ h % 2 = 1, <<CallSetEnableZb("True")>>)
        \o <<CallBackwardChunk(1, "enable_zb", TRUE, TRUE)>>
        \o If(i = step_6_switch(h) /\ h % 2 = 0, <<CallSetEnableZb("True")>>)
        \o <<CallBackwardChunk(0, "enable_zb", TRUE, TRUE)>>

\* Step 7: nWB0
step_7_body(s, i) == <<CallWeightChunk, CallBackwardChunk(0, "True", TRUE, TRUE)>>

\* Step 8: nW
step_8_body(s, i) == <<CallWeightChunk>>

\* the end of step(): assertion and last commit, then results and reset
step_end_body == <<CallFinish, CallReturn>>

\* The calls of iteration i of phase k.  Phase 0 is the entry of step()
\* (assertions, reset, scatter) and phase 9 its end.
Body(s, k, i) ==
    CASE k = 0 -> <<CallStep>>
      [] k = 1 -> step_1_body(s, i)
      [] k = 2 -> step_2_body(s, i)
      [] k = 3 -> step_3_body(s, i)
      [] k = 4 -> step_4_body(s, i)
      [] k = 5 -> step_5_body(s, i)
      [] k = 6 -> step_6_body(s, i)
      [] k = 7 -> step_7_body(s, i)
      [] k = 8 -> step_8_body(s, i)
      [] k = 9 -> step_end_body

Iterations(s, k) == IF k \in 1..8 THEN StepCount(s, k) ELSE 1

\* the enable_zb argument as passed: the local variable is read at the call
ZbArg(s, c) == IF c.zb = "enable_zb" THEN (IF s.enable_zb THEN "True" ELSE "False") ELSE c.zb

\* the calls a call of step() makes in turn
Calls(s, c) ==
    CASE c.op = "_forward_chunk" -> _forward_chunk(c.phase, c.recv, c.send)
      [] c.op = "_backward_chunk" -> _backward_chunk(c.phase, ZbArg(s, c), c.recv, c.send)
      [] c.op = "_forward_backward_chunk" -> _forward_backward_chunk(c.phase, c.phase1, c.recv)
      [] c.op = "_weight_chunk" -> _weight_chunk(s.forward_only)
      [] c.op = "finish" -> step_finish
      [] OTHER -> <<c>>

(***************************************************************************)
(* The per-step state of a DualPipe object: _reset_states                  *)
(*                                                                         *)
(* A queue slot holds "data" (a list of tensors), "recv" (the buffers of a *)
(* posted receive that has not completed yet) or "None".  A loss, a        *)
(* deferred weight-gradient function and a tensor to free are named by     *)
(* the <<phase, chunk_id>> they belong to.                                 *)
(***************************************************************************)
\* WeightGradStore.clear()
WeightGradStore_clear(w) == [w EXCEPT !.cache = << >>, !.funcs_queue = << >>]

\* a reset that leaves the forward send cursors as they are
_reset_states_keeps_send_cursor(s) ==
    [s EXCEPT !.WeightGradStore = WeightGradStore_clear(@),
              !.input_chunks = << << >>, << >> >>,
              !.output_chunks = << << >>, << >> >>,
              !.input_grad_chunks = << << >>, << >> >>,
              !.output_grad_chunks = << << >>, << >> >>,
              !.labels = << << >>, << >> >>,
              !.loss_chunks = << >>,
              !.criterion = FALSE,
              !.current_f_chunk_id = <<0, 0>>,
              !.current_b_chunk_id = <<0, 0>>,
              !.current_send_b_chunk_id = <<0, 0>>,
              !.current_recv_f_chunk_id = <<0, 0>>,
              !.current_recv_b_chunk_id = <<0, 0>>,
              !.comm_ops = << >>,
              !.to_free = << >>]

_reset_states(s) ==
    [s EXCEPT !.WeightGradStore = WeightGradStore_clear(@),
              !.input_chunks = << << >>, << >> >>,
              !.output_chunks = << << >>, << >> >>,
              !.input_grad_chunks = << << >>, << >> >>,
              !.output_grad_chunks = << << >>, << >> >>,
              !.labels = << << >>, << >> >>,
              !.loss_chunks = << >>,
              !.criterion = FALSE,
              !.current_f_chunk_id = <<0, 0>>,
              !.current_b_chunk_id = <<0, 0>>,
              !.current_send_f_chunk_id = <<0, 0>>,
              !.current_send_b_chunk_id = <<0, 0>>,
              !.current_recv_f_chunk_id = <<0, 0>>,
              !.current_recv_b_chunk_id = <<0, 0>>,
              !.comm_ops = << >>,
              !.to_free = << >>]

\* the fields a step works on, before the first step() has run; the
\* arguments and the grad mode of the step() call; view_outputs: the
\* tensors the modules return are views; the control state
\* (pc: phase k, iteration i, call j of the iteration; waiting: inside the
\* wait of _commit_and_wait_comm, with rest the calls of the current method
\* that follow it; err: the exception that ended step());
\* and what has happened so far (iters: iterations entered per phase,
\* flushed/popped: units put on and taken from funcs_queue, freed: tensors
\* released, stale_reads: computes that read the buffers of a receive that
\* had not completed, path: the object after each call since the rank last
\* waited, trace: the receive, compute, send and weight calls of this
\* step() that did something, in order, steps: the calls of step() that
\* have returned and been followed by another, first: the trace of the
\* call of step() before this one).
StepFields(a) ==
    [ WeightGradStore |-> [enabled |-> FALSE, cache |-> << >>, funcs_queue |-> << >>],
      input_chunks |-> << << >>, << >> >>,
      output_chunks |-> << << >>, << >> >>,
      input_grad_chunks |-> << << >>, << >> >>,
      output_grad_chunks |-> << << >>, << >> >>,
      labels |-> << << >>, << >> >>,
      loss_chunks |-> << >>,
      criterion |-> FALSE,
      current_f_chunk_id |-> <<0, 0>>,
      current_b_chunk_id |-> <<0, 0>>,
      current_send_f_chunk_id |-> <<0, 0>>,
      current_send_b_chunk_id |-> <<0, 0>>,
      current_recv_f_chunk_id |-> <<0, 0>>,
      current_recv_b_chunk_id |-> <<0, 0>>,
      comm_ops |-> << >>,
      to_free |-> << >>,
      num_chunks |-> a.num_chunks,
      forward_only |-> a.forward_only,
      return_outputs |-> a.return_outputs,
      enable_zb |-> FALSE,
      view_outputs |-> a.view_outputs,
      pc |-> [k |-> 0, i |-> 0, j |-> 1],
      waiting |-> FALSE,
      rest |-> << >>,
      path |-> << >>,
      err |-> "none",
      loss |-> << >>,
      iters |-> <<0, 0, 0, 0, 0, 0, 0, 0>>,
      flushed |-> << >>,
      popped |-> << >>,
      freed |-> {},
      stale_reads |-> 0,
      trace |-> << >>,
      steps |-> 0,
      first |-> << >> ]

Raise(s, e) == [s EXCEPT !.err = e]

is_first_stage(s, phase) == (s.is_first_rank /\ phase = 0) \/ (s.is_last_rank /\ phase = 1)

is_last_stage(s, phase) == (s.is_first_rank /\ phase = 1) \/ (s.is_last_rank /\ phase = 0)

(***************************************************************************)
(* comm: the pending point-to-point operations                             *)
(***************************************************************************)
\* a pending operation: irecv from / isend to a peer of a message of kind
\* "F" (activations) or "B" (input gradients) of chunk chunk_id of a phase;
\* arg is the phase argument of the method that appended it
P2POp(op, peer, kind, arg, phase, chunk_id) ==
    [op |-> op, peer |-> peer, kind |-> kind, arg |-> arg, phase |-> phase,
     chunk_id |-> chunk_id]

\* comm.append_irecv(ops, src, group)
append_irecv(ops, src, kind, arg, phase, chunk_id) ==
    Append(ops, P2POp("irecv", src, kind, arg, phase, chunk_id))

\* comm.append_isend(ops, tensors, dst, group)
append_isend(ops, dst, kind, arg, phase, chunk_id) ==
    Append(ops, P2POp("isend", dst, kind, arg, phase, chunk_id))

(***************************************************************************)
(* WeightGradStore                                                         *)
(***************************************************************************)
\* WeightGradStore.put(func): called by the backward pass while enabled
WeightGradStore_put(w, unit) == [w EXCEPT !.cache = Append(@, unit)]

\* WeightGradStore.flush(): the cached functions become one queued unit
WeightGradStore_flush(w) == [w EXCEPT !.funcs_queue = Append(@, w.cache), !.cache = << >>]

\* WeightGradStore.pop(): the oldest queued unit
WeightGradStore_pop(w) == [w EXCEPT !.funcs_queue = Tail(@)]

\* the backward pass of one chunk: its weight gradients are computed at
\* once, or put on the store when it is enabled
run_backward(s, phase, chunk_id) ==
    IF s.WeightGradStore.enabled
    THEN [s EXCEPT !.WeightGradStore = WeightGradStore_put(@, <<phase, chunk_id>>)]
    ELSE s

(***************************************************************************)
(* The methods of DualPipe, as functions of the object                     *)
(***************************************************************************)
Bump(pair, phase) == Put(pair, phase, At(pair, phase) + 1)

\* a _recv_forward that leaves its cursor where it is
_recv_forward_no_advance(s, phase0) ==
    LET phase == Xor(phase0, s.is_in_second_half)
        prev_or_next == IF phase = 0 THEN s.prev_rank ELSE s.next_rank
    IN  IF is_first_stage(s, phase) THEN s
        ELSE [s EXCEPT !.comm_ops = append_irecv(@, prev_or_next, "F", phase0, phase,
                                                 Len(At(s.input_chunks, phase))),
                       !.input_chunks = Put(@, phase, Append(At(@, phase), "recv"))]

_recv_forward(s, phase0) ==
    LET phase == Xor(phase0, s.is_in_second_half)
        prev_or_next == IF phase = 0 THEN s.prev_rank ELSE s.next_rank
    IN  IF is_first_stage(s, phase) THEN s
        ELSE [s EXCEPT !.current_recv_f_chunk_id = Bump(@, phase),
                       !.comm_ops = append_irecv(@, prev_or_next, "F", phase0, phase,
                                                 Len(At(s.input_chunks, phase))),
                       !.input_chunks = Put(@, phase, Append(At(@, phase), "recv"))]

\* a _send_forward that picks the peer by the phase as it was passed
_send_forward_by_argument(s, phase0) ==
    LET phase == Xor(phase0, s.is_in_second_half)
        chunk_id == At(s.current_send_f_chunk_id, phase)
        s1 == [s EXCEPT !.current_send_f_chunk_id = Bump(@, phase)]
        dst == IF phase0 = 0 THEN s.next_rank ELSE s.prev_rank
    IN  IF is_last_stage(s, phase) THEN s
        ELSE IF ~InRange(At(s.output_chunks, phase), chunk_id) THEN Raise(s1, "IndexError")
        ELSE IF At(s.output_chunks, phase)[chunk_id + 1] = "None" THEN Raise(s1, "TypeError")
        ELSE [s1 EXCEPT !.comm_ops = append_isend(@, dst, "F", phase0, phase, chunk_id),
                        !.to_free = IF ~s.return_outputs
                                    THEN Append(@, <<phase, chunk_id>>) ELSE @]

_send_forward(s, phase0) ==
    LET phase == Xor(phase0, s.is_in_second_half)
        chunk_id == At(s.current_send_f_chunk_id, phase)
        s1 == [s EXCEPT !.current_send_f_chunk_id = Bump(@, phase)]
        dst == IF phase = 0 THEN s.next_rank ELSE s.prev_rank
    IN  IF is_last_stage(s, phase) THEN s
        ELSE IF ~InRange(At(s.output_chunks, phase), chunk_id) THEN Raise(s1, "IndexError")
        ELSE IF At(s.output_chunks, phase)[chunk_id + 1] = "None" THEN Raise(s1, "TypeError")
        ELSE [s1 EXCEPT !.comm_ops = append_isend(@, dst, "F", phase0, phase, chunk_id),
                        !.to_free = IF ~s.return_outputs
                                    THEN Append(@, <<phase, chunk_id>>) ELSE @]

_recv_backward(s, phase0) ==
    LET phase == Xor(phase0, s.is_in_second_half)
        src == IF phase = 0 THEN s.next_rank ELSE s.prev_rank
    IN  IF s.forward_only THEN s
        ELSE IF is_last_stage(s, phase) THEN s
        ELSE [s EXCEPT !.current_recv_b_chunk_id = Bump(@, phase),
                       !.comm_ops = append_irecv(@, src, "B", phase0, phase,
                                                 Len(At(s.output_grad_chunks, phase))),
                       !.output_grad_chunks = Put(@, phase, Append(At(@, phase), "recv"))]

_send_backward(s, phase0) ==
    LET phase == Xor(phase0, s.is_in_second_half)
        chunk_id == At(s.current_send_b_chunk_id, phase)
        s1 == [s EXCEPT !.current_send_b_chunk_id = Bump(@, phase)]
        dst == IF phase = 0 THEN s.prev_rank ELSE s.next_rank
    IN  IF s.forward_only THEN s
        ELSE IF is_first_stage(s, phase) THEN s
        ELSE IF ~InRange(At(s.input_grad_chunks, phase), chunk_id) THEN Raise(s1, "IndexError")
        ELSE IF At(s.input_grad_chunks, phase)[chunk_id + 1] = "None" THEN Raise(s1, "TypeError")
        ELSE [s1 EXCEPT !.input_grad_chunks = Put(@, phase, SetItem(At(@, phase), chunk_id, "None")),
                        !.comm_ops = append_isend(@, dst, "B", phase0, phase, chunk_id)]

Ok(s) == s.err = "none"

\* a compute that reads a slot: the buffers of a receive that has not
\* completed are read as they are
Read(s, slot) == IF slot = "recv" THEN [s EXCEPT !.stale_reads = @ + 1] ELSE s

\* a forward pass that drops the loss when the outputs are kept
forward_outputs_loss_or_outputs(s, phase, chunk_id) ==
    LET last == is_last_stage(s, phase)
    IN  IF (~last) \/ s.return_outputs
        THEN [s EXCEPT !.output_chunks = Put(@, phase, Append(At(@, phase), "data"))]
        ELSE IF s.criterion THEN [s EXCEPT !.loss_chunks = Append(@, <<phase, chunk_id>>)]
        ELSE s

\* the forward pass of a chunk and what it leaves: the loss on a last stage
\* with a criterion, the outputs unless a last stage without return_outputs
forward_outputs(s, phase, chunk_id) ==
    LET last == is_last_stage(s, phase)
        s1 == IF last /\ s.criterion
              THEN [s EXCEPT !.loss_chunks = Append(@, <<phase, chunk_id>>)]
              ELSE s
    IN  IF (~last) \/ s.return_outputs
        THEN [s1 EXCEPT !.output_chunks = Put(@, phase, Append(At(@, phase), "data"))]
        ELSE s1

\* a forward compute that keeps its inputs in a forward-only step
_forward_compute_chunk_keeps_inputs(s, phase0) ==
    LET phase == Xor(phase0, s.is_in_second_half)
        chunk_id == At(s.current_f_chunk_id, phase)
        s1 == [s EXCEPT !.current_f_chunk_id = Bump(@, phase)]
        inputs == At(s.input_chunks, phase)[chunk_id + 1]
    IN  IF ~InRange(At(s.input_chunks, phase), chunk_id) THEN Raise(s1, "IndexError")
        ELSE IF inputs = "None" THEN Raise(s1, "TypeError")
        ELSE IF is_last_stage(s, phase) /\ s.criterion /\ ~InRange(At(s.labels, phase), chunk_id)
             THEN Raise(Read(s1, inputs), "IndexError")
        ELSE forward_outputs(Read(s1, inputs), phase, chunk_id)

\* the module runs on the inputs (a TypeError on None) before the labels of
\* the chunk are looked up
_forward_compute_chunk(s, phase0) ==
    LET phase == Xor(phase0, s.is_in_second_half)
        chunk_id == At(s.current_f_chunk_id, phase)
        s1 == [s EXCEPT !.current_f_chunk_id = Bump(@, phase)]
        inputs == At(s.input_chunks, phase)[chunk_id + 1]
        s2 == IF s.forward_only
              THEN [s1 EXCEPT !.input_chunks = Put(@, phase, SetItem(At(@, phase), chunk_id, "None"))]
              ELSE s1
    IN  IF ~InRange(At(s.input_chunks, phase), chunk_id) THEN Raise(s1, "IndexError")
        ELSE IF inputs = "None" THEN Raise(s2, "TypeError")
        ELSE IF is_last_stage(s, phase) /\ s.criterion /\ ~InRange(At(s.labels, phase), chunk_id)
             THEN Raise(Read(s2, inputs), "IndexError")
        ELSE forward_outputs(Read(s2, inputs), phase, chunk_id)

\* what a backward pass takes out of its slots: the loss of the chunk on a
\* last stage, else its outputs and output gradients
backward_take(s, phase, chunk_id) ==
    LET outputs == At(s.output_chunks, phase)[chunk_id + 1]
        s1 == IF ~s.return_outputs
              THEN [s EXCEPT !.output_chunks = Put(@, phase, SetItem(At(@, phase), chunk_id, "None"))]
              ELSE s
        output_grads == At(s.output_grad_chunks, phase)[chunk_id + 1]
        s2 == [s1 EXCEPT !.output_grad_chunks = Put(@, phase, SetItem(At(@, phase), chunk_id, "None"))]
    IN  IF is_last_stage(s, phase)
        THEN IF ~InRange(s.loss_chunks, chunk_id) THEN Raise(s, "IndexError") ELSE s
        ELSE IF ~InRange(At(s.output_chunks, phase), chunk_id) THEN Raise(s, "IndexError")
        ELSE IF ~InRange(At(s.output_grad_chunks, phase), chunk_id) THEN Raise(s1, "IndexError")
        ELSE IF outputs = "None" \/ output_grads = "None" THEN Raise(s2, "TypeError")
        ELSE s2

\* the backward pass runs on what was taken: the loss on a last stage, else
\* the output gradients that were in the slot of the chunk in s
backward_read(s, phase, chunk_id, s1) ==
    IF is_last_stage(s, phase) THEN s1
    ELSE Read(s1, At(s.output_grad_chunks, phase)[chunk_id + 1])

\* what a backward pass leaves: the input gradients of the chunk
backward_give(s, phase, chunk_id) ==
    LET inputs == At(s.input_chunks, phase)[chunk_id + 1]
        s1 == [s EXCEPT !.input_chunks = Put(@, phase, SetItem(At(@, phase), chunk_id, "None"))]
    IN  IF ~InRange(At(s.input_chunks, phase), chunk_id) THEN Raise(s, "IndexError")
        ELSE IF inputs = "None" THEN Raise(s1, "TypeError")
        ELSE [s1 EXCEPT !.input_grad_chunks = Put(@, phase, Append(At(@, phase), "data"))]

\* an end of the backward pass that flushes whatever enable_zb is
backward_flush_always(s, enable_zb) ==
    [s EXCEPT !.WeightGradStore = WeightGradStore_flush([@ EXCEPT !.enabled = FALSE]),
              !.flushed = Append(@, s.WeightGradStore.cache)]

\* WeightGradStore.enabled = False; if enable_zb: WeightGradStore.flush()
backward_flush(s, enable_zb) ==
    LET s1 == [s EXCEPT !.WeightGradStore.enabled = FALSE]
    IN  IF enable_zb
        THEN [s1 EXCEPT !.WeightGradStore = WeightGradStore_flush(@),
                        !.flushed = Append(@, s.WeightGradStore.cache)]
        ELSE s1

\* a backward compute that does not look at forward_only
_backward_compute_chunk_always(s, phase0, enable_zb) ==
    LET phase == Xor(phase0, s.is_in_second_half)
        chunk_id == At(s.current_b_chunk_id, phase)
        s1 == [s EXCEPT !.current_b_chunk_id = Bump(@, phase),
                        !.WeightGradStore.enabled = enable_zb]
        s2 == backward_take(s1, phase, chunk_id)
        s3 == backward_flush(run_backward(backward_read(s, phase, chunk_id, s2),
                                          phase, chunk_id), enable_zb)
    IN  IF ~Ok(s2) THEN s2
        ELSE backward_give(s3, phase, chunk_id)

_backward_compute_chunk(s, phase0, enable_zb) ==
    LET phase == Xor(phase0, s.is_in_second_half)
        chunk_id == At(s.current_b_chunk_id, phase)
        s1 == [s EXCEPT !.current_b_chunk_id = Bump(@, phase),
                        !.WeightGradStore.enabled = enable_zb]
        s2 == backward_take(s1, phase, chunk_id)
        s3 == backward_flush(run_backward(backward_read(s, phase, chunk_id, s2),
                                          phase, chunk_id), enable_zb)
    IN  IF s.forward_only THEN s
        ELSE IF ~Ok(s2) THEN s2
        ELSE backward_give(s3, phase, chunk_id)

\* type(module0).overlaped_forward_backward and the code around it: the
\* operands of the backward pass are taken out of their slots first, the
\* fused call then runs the forward pass on inputs0 (a TypeError on None)
\* and the backward pass after it
overlaped_forward_backward(s, phase0, phase1) ==
    LET chunk_id0 == At(s.current_f_chunk_id, phase0)
        s1 == [s EXCEPT !.current_f_chunk_id = Bump(@, phase0)]
        inputs0 == At(s.input_chunks, phase0)[chunk_id0 + 1]
        chunk_id1 == At(s.current_b_chunk_id, phase1)
        s2 == [s1 EXCEPT !.current_b_chunk_id = Bump(@, phase1)]
        s3 == backward_take(s2, phase1, chunk_id1)
        s4 == run_backward(backward_read(s, phase1, chunk_id1, Read(s3, inputs0)),
                           phase1, chunk_id1)
        s5 == forward_outputs(s4, phase0, chunk_id0)
    IN  IF ~InRange(At(s.input_chunks, phase0), chunk_id0) THEN Raise(s1, "IndexError")
        ELSE IF is_last_stage(s, phase0) /\ s.criterion /\ ~InRange(At(s.labels, phase0), chunk_id0)
             THEN Raise(s1, "IndexError")
        ELSE IF ~Ok(s3) THEN s3
        ELSE IF inputs0 = "None" THEN Raise(s3, "TypeError")
        ELSE backward_give(s5, phase1, chunk_id1)

_forward_backward_compute_chunk(s, phase0, phase1) ==
    LET f == _forward_compute_chunk(s, phase0)
    IN  IF s.forward_only THEN f
        ELSE IF ~s.overlaped_forward_backward
             THEN IF Ok(f) THEN _backward_compute_chunk(f, phase1, FALSE) ELSE f
        ELSE overlaped_forward_backward(s, Xor(phase0, s.is_in_second_half),
                                        Xor(phase1, s.is_in_second_half))

\* _free_tensors: a marked tensor that is a view (tensor._base is not None)
\* fails the assertion before anything is released; else every marked
\* tensor is released and the list emptied
_free_tensors(s) ==
    IF s.to_free # << >> /\ s.view_outputs THEN Raise(s, "AssertionError")
    ELSE [s EXCEPT !.freed = @ \cup {s.to_free[n] : n \in 1..Len(s.to_free)},
                   !.to_free = << >>]

\* a completed receive has filled its buffers: the slot that still holds
\* them has the data, a slot that a compute has set to None since stays None
Fill(chunks, phase, ops, kind) ==
    [n \in 1..Len(chunks) |->
        IF /\ chunks[n] = "recv"
           /\ \E m \in 1..Len(ops) : /\ ops[m].op = "irecv" /\ ops[m].kind = kind
                                     /\ ops[m].phase = phase /\ ops[m].chunk_id = n - 1
        THEN "data" ELSE chunks[n]]

\* an end of _commit_and_wait_comm that leaves the marked tensors alone
commit_done_no_free(s) ==
    [s EXCEPT !.input_chunks = <<Fill(@[1], 0, s.comm_ops, "F"), Fill(@[2], 1, s.comm_ops, "F")>>,
              !.output_grad_chunks = <<Fill(@[1], 0, s.comm_ops, "B"), Fill(@[2], 1, s.comm_ops, "B")>>,
              !.comm_ops = << >>,
              !.waiting = FALSE]

\* the end of _commit_and_wait_comm, once every request has completed
commit_done(s) ==
    _free_tensors(
      [s EXCEPT !.input_chunks = <<Fill(@[1], 0, s.comm_ops, "F"), Fill(@[2], 1, s.comm_ops, "F")>>,
                !.output_grad_chunks = <<Fill(@[1], 0, s.comm_ops, "B"), Fill(@[2], 1, s.comm_ops, "B")>>,
                !.comm_ops = << >>,
                !.waiting = FALSE])

\* scatter(inputs, half_num_chunks, batch_dim)
scatter(chunks) == [n \in 1..chunks |-> "data"]

\* an entry of step() that asks for num_ranks chunks only
step_begin_few_chunks(s, a) ==
    LET half_num_chunks == half_num_chunks_of(s.num_chunks)
        s1 == _reset_states(s)
        inputs == scatter(half_num_chunks)
        labels == scatter(half_num_chunks)
        s2 == IF s.is_first_rank
              THEN [s1 EXCEPT !.input_chunks = <<inputs, << >> >>, !.labels = << << >>, labels>>]
              ELSE IF s.is_last_rank
              THEN [s1 EXCEPT !.input_chunks = << << >>, inputs>>, !.labels = <<labels, << >> >>]
              ELSE s1
    IN  IF ~a.shapes_set THEN Raise(s, "AssertionError")
        ELSE IF s.num_ranks % 2 # 0 THEN Raise(s, "AssertionError")
        ELSE IF ~(s.num_chunks > 0 /\ s.num_chunks % 2 = 0 /\ s.num_chunks >= s.num_ranks)
             THEN Raise(s, "AssertionError")
        ELSE IF (~s.forward_only) /\ (s.is_first_rank \/ s.is_last_rank) /\ ~a.criterion
             THEN Raise(s, "AssertionError")
        ELSE [s2 EXCEPT !.criterion = a.criterion]

\* step() up to the first phase: the assertions, the reset, the scatter
step_begin(s, a) ==
    LET half_num_chunks == half_num_chunks_of(s.num_chunks)
        s1 == _reset_states(s)
        inputs == scatter(half_num_chunks)
        labels == scatter(half_num_chunks)
        s2 == IF s.is_first_rank
              THEN [s1 EXCEPT !.input_chunks = <<inputs, << >> >>, !.labels = << << >>, labels>>]
              ELSE IF s.is_last_rank
              THEN [s1 EXCEPT !.input_chunks = << << >>, inputs>>, !.labels = <<labels, << >> >>]
              ELSE s1
    IN  IF ~a.shapes_set THEN Raise(s, "AssertionError")
        ELSE IF s.num_ranks % 2 # 0 THEN Raise(s, "AssertionError")
        ELSE IF ~(s.num_chunks > 0 /\ s.num_chunks % 2 = 0 /\ s.num_chunks >= s.num_ranks * 2)
             THEN Raise(s, "AssertionError")
        ELSE IF (~s.forward_only) /\ (s.is_first_rank \/ s.is_last_rank) /\ ~a.criterion
             THEN Raise(s, "AssertionError")
        ELSE [s2 EXCEPT !.criterion = a.criterion]

\* the end of step(): the loss is stacked on the first and the last rank
\* when a criterion was given, then the state is reset
step_return(s, a) ==
    LET s1 == IF (s.is_first_rank \/ s.is_last_rank) /\ a.criterion
              THEN [s EXCEPT !.loss = s.loss_chunks] ELSE s
    IN  _reset_states(s1)

(***************************************************************************)
(* The position of a rank in step()                                        *)
(***************************************************************************)
EnterIteration(s, k, i) ==
    [s EXCEPT !.pc = [k |-> k, i |-> i, j |-> 1],
              !.iters = IF k \in 1..8 THEN [@ EXCEPT ![k] = @ + 1] ELSE @]

RECURSIVE NextPhase(_, _)
\* the first phase from k on whose loop runs at least once
NextPhase(s, k) ==
    IF k >= 9 THEN 9
    ELSE IF Iterations(s, k) > 0 THEN k
    ELSE NextPhase(s, k + 1)

\* s after n more calls of the current iteration have returned
Advance(s, n) ==
    IF ~Ok(s) THEN s
    ELSE IF s.pc.j + n <= Len(Body(s, s.pc.k, s.pc.i)) THEN [s EXCEPT !.pc.j = @ + n]
    ELSE IF s.pc.i + 1 < Iterations(s, s.pc.k) THEN EnterIteration(s, s.pc.k, s.pc.i + 1)
    ELSE IF s.pc.k = 9 THEN [s EXCEPT !.pc = [k |-> 10, i |-> 0, j |-> 1]]
    ELSE EnterIteration(s, NextPhase(s, s.pc.k + 1), 0)

Running(s) == Ok(s) /\ s.pc.k <= 9

Returned(s) == Ok(s) /\ s.pc.k = 10

\* the call the rank is at
CurCall(s) == Body(s, s.pc.k, s.pc.i)[s.pc.j]

AtCall(s, op) == Running(s) /\ ~s.waiting /\ CurCall(s).op = op

(***************************************************************************)
(* The transport.  batch_isend_irecv issues the pending operations of a    *)
(* rank in order; the k-th isend of a to b pairs with the k-th irecv of b  *)
(* from a, and a request completes once its counterpart has been issued.   *)
(* isend[<<a, b>>] lists the sends a has issued to b, irecv[<<b, a>>] the  *)
(* receives b has issued from a, each as <<kind, phase, chunk_id>>.        *)
(***************************************************************************)
Procs == DOMAIN dp

Tags(ops, op, peer) ==
    LET f == SelectSeq(ops, LAMBDA o : o.op = op /\ o.peer = peer)
    IN  [n \in 1..Len(f) |-> <<f[n].kind, f[n].phase, f[n].chunk_id>>]

\* dist.batch_isend_irecv(self.comm_ops), on the operations issued so far
batch_isend_irecv(issued, g, ops, op) ==
    [p \in DOMAIN issued |-> IF p[1] = g THEN issued[p] \o Tags(ops, op, p[2]) ELSE issued[p]]

\* every request of rank g has completed: req.wait() returns for all
RequestsDone(g) ==
    \A q \in Procs \ {g} :
        /\ Len(irecv[<<q, g>>]) >= Len(isend[<<g, q>>])
        /\ Len(isend[<<q, g>>]) >= Len(irecv[<<g, q>>])

(***************************************************************************)
(* Configurations: the group, the modules and the arguments of step().     *)
(* Every rank is driven with the same configuration.                       *)
(***************************************************************************)
Config(num_ranks, num_chunks, forward_only, overlaped, return_outputs, criterion) ==
    [ num_ranks |-> num_ranks, num_chunks |-> num_chunks, forward_only |-> forward_only,
      overlaped |-> overlaped, return_outputs |-> return_outputs, criterion |-> criterion,
      shapes_set |-> TRUE, view_outputs |-> FALSE ]

\* the chunk counts tried with num_ranks ranks: the least accepted, and the
\* even ones above it up to max_chunks
ChunkCounts(num_ranks, max_chunks) ==
    {2 * num_ranks} \cup {n \in (2 * num_ranks)..max_chunks : n % 2 = 0}

Configs(max_half_ranks, max_chunks) ==
    UNION { { Config(2 * h, n, fo, ov, ro, cr) :
                n \in ChunkCounts(2 * h, max_chunks),
                fo \in BOOLEAN, ov \in BOOLEAN, ro \in BOOLEAN, cr \in BOOLEAN } :
            h \in 1..max_half_ranks }

\* the criterion is required in training mode (on the first and the last
\* rank, which every group has)
Valid(a) == a.forward_only \/ a.criterion

Group(a) ==
    [g \in 0..(a.num_ranks - 1) |->
        DualPipeInit(a.num_ranks, g, default_rank_mapping(a.num_ranks), a.overlaped, TRUE)
        @@ StepFields(a)]

NoTraffic(a) == [p \in (0..(a.num_ranks - 1)) \X (0..(a.num_ranks - 1)) |-> << >>]

SchedIdle == [g |-> 0, k |-> 0, counts |-> << >>, forward |-> <<0, 0>>, backward |-> <<0, 0>>]

Init ==
    /\ cfg \in {a \in Configs(MaxHalfRanks, MaxChunks) : Valid(a)}
    /\ dp = Group(cfg)
    /\ isend = NoTraffic(cfg)
    /\ irecv = NoTraffic(cfg)
    /\ sched = SchedIdle

(***************************************************************************)
(* Running step().  Everything a rank does is local to its object, up to   *)
(* the wait of _commit_and_wait_comm, the only place where it blocks, so   *)
(* a rank moves from one wait to the next in one action; the states its    *)
(* object goes through on the way are kept in path.                        *)
(***************************************************************************)
_weight_pop(s) ==
    IF s.WeightGradStore.funcs_queue = << >> THEN Raise(s, "AssertionError")
    ELSE [s EXCEPT !.WeightGradStore = WeightGradStore_pop(@),
                   !.popped = Append(@, Head(s.WeightGradStore.funcs_queue))]

_assert_queue_empty(s) ==
    IF s.WeightGradStore.funcs_queue # << >> THEN Raise(s, "AssertionError") ELSE s

\* one call that does not block
Apply(s, c) ==
    CASE c.op = "step" -> step_begin(s, cfg)
      [] c.op = "_recv_forward" -> _recv_forward(s, c.phase)
      [] c.op = "_send_forward" -> _send_forward(s, c.phase)
      [] c.op = "_recv_backward" -> _recv_backward(s, c.phase)
      [] c.op = "_send_backward" -> _send_backward(s, c.phase)
      [] c.op = "_forward_compute_chunk" -> _forward_compute_chunk(s, c.phase)
      [] c.op = "_backward_compute_chunk" -> _backward_compute_chunk(s, c.phase, c.zb = "True")
      [] c.op = "_forward_backward_compute_chunk" ->
            _forward_backward_compute_chunk(s, c.phase, c.phase1)
      [] c.op = "WeightGradStore.pop" -> _weight_pop(s)
      [] c.op = "assert_funcs_queue_empty" -> _assert_queue_empty(s)
      [] c.op = "enable_zb" -> [s EXCEPT !.enable_zb = (c.zb = "True")]
      [] c.op = "return" -> step_return(s, cfg)

\* the calls that receive, compute, send or work on the weight gradients
Traced ==
    {"_recv_forward", "_send_forward", "_recv_backward", "_send_backward",
     "_forward_compute_chunk", "_backward_compute_chunk",
     "_forward_backward_compute_chunk", "WeightGradStore.pop"}

\* s1 is the object after call c on s: a traced call that did something and
\* raised nothing is added to the trace
Log(s, c, s1) ==
    IF c.op \in Traced /\ Ok(s1) /\ s1 # s
    THEN [s1 EXCEPT !.trace = Append(@, [c EXCEPT !.zb = ZbArg(s, c)])]
    ELSE s1

\* the object as it is after a call, kept in path (without the trace)
Seen(s) == [s EXCEPT !.path = Append(@, [s EXCEPT !.path = << >>, !.trace = << >>])]

\* the one element of a singleton set: { e(x) : x \in {v} } is e with v
\* computed once, where LET would compute v again at every use of x
Only(S) == CHOOSE r \in S : TRUE

RECURSIVE Run(_, _)
\* the calls of a method in order, up to an exception or to the wait of
\* _commit_and_wait_comm (which returns at once with nothing pending)
Run(s, calls) ==
    IF calls = << >> \/ ~Ok(s) THEN [s EXCEPT !.rest = << >>]
    ELSE IF Head(calls).op = "_commit_and_wait_comm"
         THEN IF s.comm_ops = << >>
              THEN Run(s, Tail(calls))
              ELSE [s EXCEPT !.waiting = TRUE, !.rest = Tail(calls)]
    ELSE Only({Run(s1, rest) :
                 s1 \in {Seen(s2) : s2 \in {Log(s, Head(calls), s3) : s3 \in {Apply(s, Head(calls))}}},
                 rest \in {Tail(calls)}})

\* the call of step() the rank is at, run up to its return or to a wait
RunCall(s) ==
    Only({IF s1.waiting THEN s1 ELSE Advance(s1, 1) : s1 \in {Run(s, Calls(s, CurCall(s)))}})

\* the rest of the method after its wait has returned
RunRest(s) ==
    Only({IF s1.waiting THEN s1 ELSE Advance(s1, 1) : s1 \in {Run(Seen(commit_done(s)), s.rest)}})

RECURSIVE Proceed(_)
\* A rank is one sequential thread: it runs on from call to call until it
\* waits in _commit_and_wait_comm, an exception ends step(), or it is
\* about to leave step() (the results and the reset are StepReturn).
Proceed(s) ==
    IF ~Running(s) \/ s.waiting THEN s
    ELSE IF CurCall(s).op = "return" THEN s
    ELSE Only({Proceed(s1) : s1 \in {RunCall(s)}})

\* rank g has run to s; the batch of a rank that now waits is issued
Ran(g, s) ==
    /\ dp' = [dp EXCEPT ![g] = s]
    /\ isend' = IF dp'[g].waiting
                THEN batch_isend_irecv(isend, g, dp'[g].comm_ops, "isend") ELSE isend
    /\ irecv' = IF dp'[g].waiting
                THEN batch_isend_irecv(irecv, g, dp'[g].comm_ops, "irecv") ELSE irecv
    /\ UNCHANGED <<cfg, sched>>

NewPath(s) == [s EXCEPT !.path = << >>]

(***************************************************************************)
(* Actions                                                                 *)
(***************************************************************************)
\* rank g enters step() and runs to its first wait
StepBegin(g) ==
    /\ AtCall(dp[g], "step")
    /\ \E s \in {Proceed(RunCall(NewPath(dp[g])))} : Ran(g, s)

\* every request of the batch of rank g has completed: the wait returns and
\* the rank runs on to its next wait, or to the end of step()
WaitReturns(g) ==
    /\ Running(dp[g]) /\ dp[g].waiting
    /\ RequestsDone(g)
    /\ \E s \in {Proceed(RunRest(NewPath(dp[g])))} : Ran(g, s)

\* rank g stacks the loss, resets its state and leaves step()
StepReturn(g) ==
    /\ AtCall(dp[g], "return")
    /\ \E s \in {RunCall(NewPath(dp[g]))} : Ran(g, s)

RankStep(g) ==
    \/ StepBegin(g)
    \/ WaitReturns(g)
    \/ StepReturn(g)

Next ==
    \/ \E g \in Procs : StepBegin(g)
    \/ \E g \in Procs : WaitReturns(g)
    \/ \E g \in Procs : StepReturn(g)

Spec == Init /\ [][Next]_vars

\* every rank is a running process: a rank that can take a step takes it
FairSpec ==
    Spec /\ \A g \in 0..(2 * MaxHalfRanks - 1) : WF_vars(g \in Procs /\ RankStep(g))

(***************************************************************************)
(* The construction of the objects of a group, with a rank_mapping or      *)
(* without one.                                                            *)
(***************************************************************************)
\* the group sizes tried are 2, 4 .. 2 * MaxTopoHalfRanks
MaxTopoHalfRanks == 2

\* the permutations of 0 .. n - 1, as lists
RankMappings(n) ==
    {m \in [1..n -> 0..(n - 1)] : \A i \in 1..n : \A j \in 1..n : i # j => m[i] # m[j]}

\* lists that need not be permutations are tried for groups of
\* 1 .. MaxListRanks processes
MaxListRanks == 2

\* the lists of n or n - 1 entries, each from two below the least index of
\* the n + 1 slots of rank_inverse_mapping to one above the greatest:
\* __init__ checks nothing about rank_mapping
RankLists(n) ==
    [1..n -> (0 - (n + 2))..(n + 1)] \cup [1..(n - 1) -> (0 - (n + 2))..(n + 1)]

\* a group size, the rank_mapping argument (given: it is not None), whether
\* the modules are on the device of the process and whether they are a pair
\* of one type that has the method overlaped_forward_backward
TopoConfigs ==
    UNION { {[num_ranks |-> n, given |-> TRUE, rank_mapping |-> m, on_device |-> d,
              overlaped |-> ov] :
                m \in RankMappings(n), d \in BOOLEAN, ov \in BOOLEAN}
            \cup {[num_ranks |-> n, given |-> FALSE, rank_mapping |-> << >>, on_device |-> d,
                   overlaped |-> ov] :
                d \in BOOLEAN, ov \in BOOLEAN} :
            n \in {2 * h : h \in 1..MaxTopoHalfRanks} }
    \cup
    UNION { {[num_ranks |-> n, given |-> TRUE, rank_mapping |-> m, on_device |-> TRUE,
              overlaped |-> ov] :
                m \in RankLists(n), ov \in BOOLEAN} :
            n \in 1..MaxListRanks }

TopoInit ==
    /\ cfg \in TopoConfigs
    /\ dp = << >>
    /\ isend = << >>
    /\ irecv = << >>
    /\ sched = SchedIdle

\* the process with group rank g constructs its object
Construct(g) ==
    /\ g \notin DOMAIN dp
    /\ dp' = dp @@ (g :> DualPipeInit(cfg.num_ranks, g,
                                      IF cfg.given THEN cfg.rank_mapping
                                      ELSE default_rank_mapping(cfg.num_ranks),
                                      cfg.overlaped, cfg.on_device))
    /\ UNCHANGED <<cfg, isend, irecv, sched>>

TopoNext == \E g \in 0..(cfg.num_ranks - 1) : Construct(g)

TopoSpec == TopoInit /\ [][TopoNext]_vars

(***************************************************************************)
(* step() called again after it has returned, with the same arguments.     *)
(***************************************************************************)
\* every rank calls step() up to MaxSteps times
MaxSteps == 2
\* the groups that call step() again have four ranks: the smallest even
\* size above 2, where is_middle_rank is not cut off by num_ranks > 2
TwiceRanks == 4

\* rank g, back from step(), calls it again: the position is at the entry
\* again, the record of what happened starts anew, and the trace of the
\* call that has returned is kept in first; the object is left as the
\* call that has returned left it
StepAgain(g) ==
    /\ Returned(dp[g])
    /\ dp[g].steps + 1 < MaxSteps
    /\ dp' = [dp EXCEPT ![g] =
                [@ EXCEPT !.pc = StepFields(cfg).pc,
                          !.enable_zb = FALSE,
                          !.steps = @ + 1,
                          !.first = dp[g].trace,
                          !.trace = << >>,
                          !.path = << >>,
                          !.loss = << >>,
                          !.iters = StepFields(cfg).iters,
                          !.flushed = << >>,
                          !.popped = << >>,
                          !.freed = {},
                          !.stale_reads = 0]]
    /\ UNCHANGED <<cfg, isend, irecv, sched>>

TwiceConfigs ==
    {a \in Configs(TwiceRanks \div 2, 2 * TwiceRanks) :
        /\ Valid(a) /\ a.num_ranks = TwiceRanks
        /\ a.criterion /\ ~a.return_outputs}

TwiceInit ==
    /\ cfg \in TwiceConfigs
    /\ dp = Group(cfg)
    /\ isend = NoTraffic(cfg)
    /\ irecv = NoTraffic(cfg)
    /\ sched = SchedIdle

TwiceNext ==
    \/ \E g \in Procs : StepBegin(g)
    \/ \E g \in Procs : WaitReturns(g)
    \/ \E g \in Procs : StepReturn(g)
    \/ \E g \in Procs : StepAgain(g)

TwiceSpec == TwiceInit /\ [][TwiceNext]_vars

(***************************************************************************)
(* step() called with any arguments, the invalid ones included: any group  *)
(* size, any chunk count, the shapes set or not, the criterion given or    *)
(* not.                                                                    *)
(***************************************************************************)
\* the group sizes tried are 1 .. MaxEntryRanks
MaxEntryRanks == 4
\* the chunk counts tried are -1 .. MaxEntryChunks
MaxEntryChunks == 8

EntryConfigs ==
    { [Config(n, c, fo, FALSE, FALSE, cr) EXCEPT !.shapes_set = sh, !.view_outputs = vw] :
        n \in 1..MaxEntryRanks, c \in (-1)..MaxEntryChunks,
        fo \in BOOLEAN, cr \in BOOLEAN, sh \in BOOLEAN, vw \in BOOLEAN }

EntryInit ==
    /\ cfg \in EntryConfigs
    /\ dp = Group(cfg)
    /\ isend = NoTraffic(cfg)
    /\ irecv = NoTraffic(cfg)
    /\ sched = SchedIdle

EntrySpec == EntryInit /\ [][Next]_vars

(***************************************************************************)
(* The schedule as a table: the eight iteration counts of a rank and the   *)
(* computes they add up to, tabulated phase by phase without running the   *)
(* step.  sched.forward[p + 1] and sched.backward[p + 1] count the forward *)
(* and backward computes step() calls with phase argument p.               *)
(***************************************************************************)
RECURSIVE Flatten(_, _)
\* every call made in an iteration, the calls inside methods included
Flatten(s, body) ==
    IF body = << >> THEN << >> ELSE Calls(s, Head(body)) \o Flatten(s, Tail(body))

IsForwardCompute(c, p) ==
    \/ c.op = "_forward_compute_chunk" /\ c.phase = p
    \/ c.op = "_forward_backward_compute_chunk" /\ c.phase = p

IsBackwardCompute(s, c, p) ==
    /\ ~s.forward_only
    /\ \/ c.op = "_backward_compute_chunk" /\ c.phase = p
       \/ c.op = "_forward_backward_compute_chunk" /\ c.phase1 = p

RECURSIVE ForwardComputes(_, _, _, _)
\* the forward computes with phase argument p in iterations 0..n-1 of phase k
ForwardComputes(s, k, n, p) ==
    IF n = 0 THEN 0
    ELSE LET f == Flatten(s, Body(s, k, n - 1))
         IN  Cardinality({m \in 1..Len(f) : IsForwardCompute(f[m], p)})
             + ForwardComputes(s, k, n - 1, p)

RECURSIVE BackwardComputes(_, _, _, _)
BackwardComputes(s, k, n, p) ==
    IF n = 0 THEN 0
    ELSE LET f == Flatten(s, Body(s, k, n - 1))
         IN  Cardinality({m \in 1..Len(f) : IsBackwardCompute(s, f[m], p)})
             + BackwardComputes(s, k, n - 1, p)

SchedConfigs ==
    { Config(2 * h, 4 * h + 2 * e, fo, FALSE, FALSE, TRUE) :
        h \in 1..MaxSchedHalfRanks, e \in 0..MaxSchedExtraPairs, fo \in BOOLEAN }

SchedInit ==
    /\ cfg \in SchedConfigs
    /\ dp = Group(cfg)
    /\ isend = NoTraffic(cfg)
    /\ irecv = NoTraffic(cfg)
    /\ sched \in {[SchedIdle EXCEPT !.g = g, !.k = 1] : g \in 0..(cfg.num_ranks - 1)}

\* the next phase of the table of rank sched.g
Tabulate ==
    LET s == dp[sched.g]
        k == sched.k
        n == StepCount(s, k)
    IN  /\ k \in 1..8
        /\ sched' = [sched EXCEPT
                !.k = k + 1,
                !.counts = Append(@, StepValue(s, k)),
                !.forward = <<@[1] + ForwardComputes(s, k, n, 0), @[2] + ForwardComputes(s, k, n, 1)>>,
                !.backward = <<@[1] + BackwardComputes(s, k, n, 0), @[2] + BackwardComputes(s, k, n, 1)>>]
        /\ UNCHANGED <<cfg, dp, isend, irecv>>

SchedNext == Tabulate

SchedSpec == SchedInit /\ [][SchedNext]_vars

(***************************************************************************)
(* Properties                                                              *)
(***************************************************************************)
Range(q) == {q[n] : n \in 1..Len(q)}

\* the states the object of rank g has been in since the rank last waited
Objects(g) == {dp[g]} \cup {dp[g].path[n] : n \in 1..Len(dp[g].path)}

\* after the last commit of step(), before the results and the reset
AtEnd(s) == Running(s) /\ ~s.waiting /\ CurCall(s).op = "return"

AllAtEnd == \A g \in Procs : AtEnd(dp[g])

AllReturned == \A g \in Procs : Returned(dp[g])

CanStep(g) == Running(dp[g]) /\ (dp[g].waiting => RequestsDone(g))

\* no rank can take a step any more
Quiescent == \A g \in Procs : ~CanStep(g)

Half == cfg.num_chunks \div 2

HalfRank(g) == half_rank_of(cfg.num_ranks, dp[g].rank)

\* C1: in gradient-tracking mode, with every rank driven by the same valid
\* configuration, every rank's step() eventually returns (stated as in the
\* claim, for every even num_ranks >= 2; it fails for num_ranks = 2).
C1_EveryRankReturns == (~cfg.forward_only) => <>AllReturned

\* C2: every pending descriptor of a commit has its counterpart posted by
\* the peer: once no rank can move any more, every send issued by a rank to
\* a peer is paired with a receive issued by that peer and every receive
\* with a send (stated as in the claim; it fails for num_ranks = 2).
C2_DescriptorsMatched ==
    Quiescent => \A p \in DOMAIN isend : Len(isend[p]) = Len(irecv[<<p[2], p[1]>>])

C3_Claimed(h) == IF h = 0 THEN <<2, 1, 1, 1, 1, 1, 1, 1>> ELSE <<0, 2, 0, 1, 1, 2, 0, 2>>

C3_Executed(h) == IF h = 0 THEN <<2, 1, 1, 1, 1, 1, 1, 1>> ELSE <<0, 2, 0, 2, 0, 2, 0, 2>>

\* C3 as claimed: with num_ranks = 4 and num_chunks = 8 a rank has run
\* [2,1,1,1,1,1,1,1] iterations of phases 1..8 when its half rank is 0 and
\* [0,2,0,1,1,2,0,2] when its half rank is 1.
C3_Original ==
    \A g \in Procs :
        (cfg.num_ranks = 4 /\ cfg.num_chunks = 8 /\ AtEnd(dp[g]))
            => dp[g].iters = C3_Claimed(HalfRank(g))

\* C3 as amended: with num_ranks = 4 and num_chunks = 8 a rank never runs
\* more iterations of a phase than [2,1,1,1,1,1,1,1] (half rank 0) or
\* [0,2,0,2,0,2,0,2] (half rank 1), and has run exactly those at the end.
C3_IterationCounts ==
    \A g \in Procs :
        (cfg.num_ranks = 4 /\ cfg.num_chunks = 8)
            => /\ \A k \in 1..8 : dp[g].iters[k] <= C3_Executed(HalfRank(g))[k]
               /\ AtEnd(dp[g]) => dp[g].iters = C3_Executed(HalfRank(g))

C3_Witness == cfg.num_ranks = 4 /\ cfg.num_chunks = 8 /\ AllAtEnd

\* C4: for every rank of every valid configuration the eight step_k are
\* non-negative, step_4 is at least 1, and the phases add up to
\* num_chunks / 2 forward computes for each phase argument and, in
\* gradient-tracking mode, num_chunks / 2 backward computes for each.
C4_CountsAddUp ==
    /\ \A k \in 1..Len(sched.counts) : sched.counts[k] >= 0
    /\ Len(sched.counts) >= 4 => sched.counts[4] >= 1
    /\ sched.k = 9 =>
          /\ sched.forward = <<Half, Half>>
          /\ (~cfg.forward_only) => sched.backward = <<Half, Half>>

C4_Witness ==
    /\ sched.k = 9 /\ cfg.num_ranks = 6 /\ sched.g = 1 /\ ~cfg.forward_only
    /\ sched.counts = <<2, 2, 1, Half - 4, 1, 2, 1, 2>>

\* the six cursors of phase p of object s
recvF(s, p) == At(s.current_recv_f_chunk_id, p)
computeF(s, p) == At(s.current_f_chunk_id, p)
sendF(s, p) == At(s.current_send_f_chunk_id, p)
recvB(s, p) == At(s.current_recv_b_chunk_id, p)
computeB(s, p) == At(s.current_b_chunk_id, p)
sendB(s, p) == At(s.current_send_b_chunk_id, p)

Cursors(s, p) == <<recvF(s, p), computeF(s, p), sendF(s, p), recvB(s, p), computeB(s, p), sendB(s, p)>>

\* C5 as claimed: in every state of step(), on every rank and for each
\* phase, sendF <= computeF <= recvF and sendB <= computeB <= recvB.
C5_Original ==
    \A g \in Procs : \A s \in Objects(g) : \A p \in 0..1 :
        /\ sendF(s, p) <= computeF(s, p) /\ computeF(s, p) <= recvF(s, p)
        /\ sendB(s, p) <= computeB(s, p) /\ computeB(s, p) <= recvB(s, p)

\* C5 as amended: in every state of step(), on every rank and for each
\* phase, sendF <= computeF and sendB <= computeB; computeF <= recvF except
\* on the first stage of the phase, which receives nothing and whose recvF
\* stays 0; computeB <= recvB except on the last stage of the phase, whose
\* recvB stays 0.
C5_CursorOrder ==
    \A g \in Procs : \A s \in Objects(g) : \A p \in 0..1 :
        /\ sendF(s, p) <= computeF(s, p)
        /\ sendB(s, p) <= computeB(s, p)
        /\ IF is_first_stage(s, p) THEN recvF(s, p) = 0 ELSE computeF(s, p) <= recvF(s, p)
        /\ IF is_last_stage(s, p) THEN recvB(s, p) = 0 ELSE computeB(s, p) <= recvB(s, p)

\* a first rank that has computed phase 0 without receiving, while a rank
\* that is on no boundary has moved all six cursors of a phase
C5_Witness ==
    /\ \E g \in Procs : dp[g].is_first_rank /\ computeF(dp[g], 0) > 0 /\ recvF(dp[g], 0) = 0
    /\ \E g \in Procs : \E p \in 0..1 :
          /\ ~dp[g].is_first_rank /\ ~dp[g].is_last_rank
          /\ \A n \in 1..6 : Cursors(dp[g], p)[n] > 0

\* C6 as claimed: at the end of a gradient-tracking step(), after the last
\* commit and before the reset, all six cursors of each phase are
\* num_chunks / 2 on every rank.
C6_Original ==
    \A g \in Procs : \A p \in 0..1 :
        (~cfg.forward_only /\ AtEnd(dp[g]))
            => Cursors(dp[g], p) = <<Half, Half, Half, Half, Half, Half>>

\* what a cursor is at the end when the stage skips its operation
EndCursor(skips) == IF skips THEN 0 ELSE Half

\* C6 as amended: in a gradient-tracking step() no cursor ever exceeds
\* num_chunks / 2, and at the end, after the last commit and before the
\* reset, computeF and computeB of each phase are num_chunks / 2 on every
\* rank, and so are recvF and sendB except on the first stage of the phase
\* and sendF and recvB except on its last stage, where they are 0.
C6_CursorsAtEnd ==
    (~cfg.forward_only) =>
        \A g \in Procs : \A p \in 0..1 :
            /\ \A s \in Objects(g) : \A c \in Range(Cursors(s, p)) : c <= Half
            /\ AtEnd(dp[g]) =>
                  Cursors(dp[g], p) =
                      << EndCursor(is_first_stage(dp[g], p)), Half, EndCursor(is_last_stage(dp[g], p)),
                         EndCursor(is_last_stage(dp[g], p)), Half, EndCursor(is_first_stage(dp[g], p)) >>

C6_Witness == ~cfg.forward_only /\ cfg.num_ranks = 4 /\ AllAtEnd

\* C7 as claimed: at the end of a forward-only step() all six cursors of
\* each phase are num_chunks / 2 and the weight-gradient queue is empty.
C7_Original ==
    \A g \in Procs : \A p \in 0..1 :
        (cfg.forward_only /\ AtEnd(dp[g]))
            => /\ Cursors(dp[g], p) = <<Half, Half, Half, Half, Half, Half>>
               /\ dp[g].WeightGradStore.funcs_queue = << >>

\* C7 as amended: a forward-only step() raises no exception, no cursor
\* ever exceeds num_chunks / 2, and at its end, before the reset, computeF
\* of each phase is num_chunks / 2, recvF is num_chunks / 2 except on the
\* first stage of the phase and sendF except on its last stage, where they
\* are 0, the three backward cursors are 0, and the weight-gradient queue
\* is empty.
C7_ForwardOnlyAtEnd ==
    cfg.forward_only =>
        \A g \in Procs : \A p \in 0..1 :
            /\ \A s \in Objects(g) : Ok(s) /\ \A c \in Range(Cursors(s, p)) : c <= Half
            /\ AtEnd(dp[g]) =>
                  /\ Cursors(dp[g], p) =
                        << EndCursor(is_first_stage(dp[g], p)), Half,
                           EndCursor(is_last_stage(dp[g], p)), 0, 0, 0 >>
                  /\ dp[g].WeightGradStore.funcs_queue = << >>

C7_Witness == cfg.forward_only /\ cfg.num_ranks = 4 /\ AllAtEnd

\* the operations of kind k among ops
OfKind(ops, k) == SelectSeq(ops, LAMBDA o : o.kind = k)

\* the tags of kind k among the issued operations
TagsOfKind(issued, k) == SelectSeq(issued, LAMBDA x : x[1] = k)

\* the forward traffic of a whole step between g and q, whatever the mode:
\* chunks 0 .. num_chunks / 2 - 1 of phase 0 downstream and of phase 1
\* upstream, in order
ForwardTraffic(g, q) ==
    IF q = g + 1 THEN [n \in 1..Half |-> <<"F", 0, n - 1>>]
    ELSE IF q = g - 1 THEN [n \in 1..Half |-> <<"F", 1, n - 1>>]
    ELSE << >>

IsPrefix(a, b) == Len(a) <= Len(b) /\ a = SubSeq(b, 1, Len(a))

\* the forward work is that of the one schedule both modes run
ForwardWorkAsScheduled ==
    \A g \in Procs : \A q \in Procs :
        /\ IsPrefix(TagsOfKind(isend[<<g, q>>], "F"), ForwardTraffic(g, q))
        /\ IsPrefix(TagsOfKind(irecv[<<q, g>>], "F"), ForwardTraffic(g, q))
        /\ AtEnd(dp[g]) =>
              /\ TagsOfKind(isend[<<g, q>>], "F") = ForwardTraffic(g, q)
              /\ TagsOfKind(irecv[<<g, q>>], "F") = ForwardTraffic(q, g)
              /\ \A p \in 0..1 : computeF(dp[g], p) = Half

\* C8: in a forward-only step() no gradient receive or send is ever posted,
\* the weight-gradient store is never pushed to or popped, no backward
\* compute runs and the three backward cursors never change, an input slot
\* is empty exactly when its forward compute has run, and the forward
\* computes, sends and receives are those of the gradient-tracking schedule
\* (the same closed form holds in both modes).
C8_ForwardOnlyFrame ==
    /\ ForwardWorkAsScheduled
    /\ cfg.forward_only =>
          \A g \in Procs :
            /\ \A q \in Procs : TagsOfKind(isend[<<g, q>>], "B") = << >>
                                /\ TagsOfKind(irecv[<<g, q>>], "B") = << >>
            /\ \A s \in Objects(g) :
              /\ OfKind(s.comm_ops, "B") = << >>
              /\ s.WeightGradStore = [enabled |-> FALSE, cache |-> << >>, funcs_queue |-> << >>]
              /\ s.flushed = << >> /\ s.popped = << >>
              /\ s.input_grad_chunks = << << >>, << >> >>
              /\ s.output_grad_chunks = << << >>, << >> >>
              /\ \A p \in 0..1 :
                    /\ recvB(s, p) = 0 /\ computeB(s, p) = 0 /\ sendB(s, p) = 0
                    /\ \A n \in 1..Len(At(s.input_chunks, p)) :
                          (At(s.input_chunks, p)[n] = "None") <=> (n <= computeF(s, p))

\* a forward-only step has ended on a rank that released every input, and
\* phases 3 to 8 have run on it
C8_Witness ==
    \E g \in Procs :
        /\ cfg.forward_only /\ AtEnd(dp[g])
        /\ dp[g].iters[3] > 0 /\ dp[g].iters[7] > 0 /\ dp[g].iters[8] > 0
        /\ \A p \in 0..1 : At(dp[g].input_chunks, p) = [n \in 1..Half |-> "None"]

\* C9: in a gradient-tracking step() every weight flush pops from a
\* non-empty queue and the final assertion holds (no AssertionError), the
\* units are popped in the order they were queued, each unit is the one
\* backward chunk that ran with zero bubble, and at the end the queue is
\* empty and the weight flushes (the iterations of phases 3, 7 and 8) are
\* as many as the units queued.
C9_WeightQueue ==
    (~cfg.forward_only) =>
        \A g \in Procs : \A s \in Objects(g) :
            /\ s.err # "AssertionError"
            /\ IsPrefix(s.popped, s.flushed)
            /\ Ok(s) => s.WeightGradStore.funcs_queue =
                            SubSeq(s.flushed, Len(s.popped) + 1, Len(s.flushed))
            /\ \A n \in 1..Len(s.flushed) : Len(s.flushed[n]) = 1
            /\ Len(s.popped) <= s.iters[3] + s.iters[7] + s.iters[8]
            /\ AtEnd(s) =>
                  /\ s.WeightGradStore.funcs_queue = << >>
                  /\ Len(s.flushed) = s.iters[3] + s.iters[7] + s.iters[8]
                  /\ Len(s.popped) = Len(s.flushed)

\* a gradient-tracking step has ended on a rank that flushed in phases 3, 7
\* and 8
C9_Witness ==
    \E g \in Procs :
        /\ ~cfg.forward_only /\ AtEnd(dp[g])
        /\ dp[g].iters[3] > 0 /\ dp[g].iters[7] > 0 /\ dp[g].iters[8] > 0
        /\ Len(dp[g].popped) = 3

\* C10: a send never takes a slot that is not there or not yet produced (no
\* IndexError, no TypeError on None): every pending forward send of chunk
\* k of a phase is posted after the forward compute of chunk k of that
\* phase, and every pending backward send of chunk k after the backward
\* compute of chunk k.
C10_SendAfterCompute ==
    \A g \in Procs : \A s \in Objects(g) :
        /\ s.err \notin {"IndexError", "TypeError"}
        /\ \A n \in 1..Len(s.comm_ops) :
              LET o == s.comm_ops[n]
              IN  o.op = "isend" =>
                     IF o.kind = "F"
                     THEN /\ o.chunk_id < computeF(s, o.phase)
                          /\ o.chunk_id < Len(At(s.output_chunks, o.phase))
                     ELSE /\ o.chunk_id < computeB(s, o.phase)
                          /\ o.chunk_id < Len(At(s.input_grad_chunks, o.phase))

\* a rank waits on a batch that holds a forward send and a backward send
C10_Witness ==
    \E g \in Procs :
        /\ dp[g].waiting
        /\ \E n \in 1..Len(dp[g].comm_ops) :
              dp[g].comm_ops[n].op = "isend" /\ dp[g].comm_ops[n].kind = "F"
        /\ \E n \in 1..Len(dp[g].comm_ops) :
              dp[g].comm_ops[n].op = "isend" /\ dp[g].comm_ops[n].kind = "B"

\* the phase whose last stage rank s is: 1 on the first rank, 0 on the last
FinalPhase(s) == IF s.is_first_rank THEN 1 ELSE 0

\* the losses of chunks 0 .. num_chunks / 2 - 1 of that phase, in order
AllLosses(s) == [n \in 1..Half |-> <<FinalPhase(s), n - 1>>]

\* C11: on the first and on the last rank, with a criterion, the losses
\* collected so far are those of the first chunks of the rank's final-stage
\* phase, in chunk order; at the end of step() they are num_chunks / 2, one
\* per chunk, and they are what step() returns as the loss; in
\* gradient-tracking mode (fused or not) and in forward-only mode.
C11_LossPerChunk ==
    \A g \in Procs :
        ((dp[g].is_first_rank \/ dp[g].is_last_rank) /\ cfg.criterion) =>
            /\ \A s \in Objects(g) : IsPrefix(s.loss_chunks, AllLosses(s))
            /\ AtEnd(dp[g]) => dp[g].loss_chunks = AllLosses(dp[g])
            /\ Returned(dp[g]) => dp[g].loss = AllLosses(dp[g])

\* a fused gradient-tracking step with a criterion and the outputs kept has
\* returned on the first rank and ended on the last
C11_Witness ==
    /\ cfg.criterion /\ cfg.return_outputs /\ cfg.num_ranks = 4
    /\ cfg.overlaped /\ ~cfg.forward_only
    /\ Returned(dp[0]) /\ Len(dp[0].loss) = Half
    /\ AtEnd(dp[3]) /\ Len(dp[3].loss_chunks) = Half

\* the configuration is invalid for the rank of object s
InvalidFor(a, s) ==
    \/ a.num_ranks % 2 # 0
    \/ a.num_chunks <= 0 \/ a.num_chunks % 2 # 0 \/ a.num_chunks < 2 * a.num_ranks
    \/ ~a.shapes_set
    \/ (~a.forward_only) /\ (s.is_first_rank \/ s.is_last_rank) /\ ~a.criterion

\* rank g has called step() and the call is over or under way
Called(g) == dp[g].path # << >>

\* C12: on a rank for which the configuration is invalid (num_ranks odd;
\* num_chunks not positive, odd or below 2 * num_ranks; shapes not set;
\* criterion missing on the first or last rank in gradient-tracking mode)
\* step() raises its assertion with the object as it was before the call
\* (no queue, cursor or pending operation changed, nothing computed) and
\* with nothing issued to the transport.
C12_FailFast ==
    \A g \in Procs :
        (InvalidFor(cfg, dp[g]) /\ Called(g)) =>
            /\ dp[g].err = "AssertionError"
            /\ \A s \in Objects(g) : [s EXCEPT !.err = "none", !.path = << >>] = Group(cfg)[g]
            /\ \A q \in Procs : isend[<<g, q>>] = << >> /\ irecv[<<g, q>>] = << >>

\* in gradient-tracking mode without a criterion the first rank of four has
\* failed at the entry while a rank in the middle is scheduling
C12_Witness ==
    /\ cfg.num_ranks = 4 /\ cfg.num_chunks = 8 /\ cfg.shapes_set
    /\ ~cfg.forward_only /\ ~cfg.criterion
    /\ dp[0].err = "AssertionError" /\ Called(0)
    /\ dp[1].waiting

\* the pending forward operations of an object: activations sent or received
ForwardOps(s) == {o \in {s.comm_ops[n] : n \in 1..Len(s.comm_ops)} : o.kind = "F"}

\* the peer of a forward operation on shard phase: shard 0 is sent to the
\* next rank and received from the previous one, shard 1 the other way
ForwardPeer(s, op, phase) ==
    IF (op = "isend") = (phase = 0) THEN s.next_rank ELSE s.prev_rank

\* C13 as stated: the shard of the phase passed as p is p XOR
\* is_in_second_half, and on every rank the activations of the phase passed
\* as 0 are sent to next_rank and received from prev_rank, those of the
\* phase passed as 1 the other way.
C13_Original ==
    \A g \in Procs : \A s \in Objects(g) : \A o \in ForwardOps(s) :
        /\ o.phase = Xor(o.arg, s.is_in_second_half)
        /\ o.peer = ForwardPeer(s, o.op, o.arg)

\* C13 (amended): the shard of the phase passed as p is p XOR
\* is_in_second_half, and it is the shard, not the phase as passed, that has
\* a direction: activations of shard 0 go from a rank to the rank one above
\* it (sent to next_rank, received from prev_rank) and those of shard 1 to
\* the rank one below; so the phase passed as 0 flows from the first rank
\* toward the last on the first half of the ranks and from the last toward
\* the first on the second half.
C13_ShardDirection ==
    \A g \in Procs : \A s \in Objects(g) : \A o \in ForwardOps(s) :
        /\ o.phase = Xor(o.arg, s.is_in_second_half)
        /\ o.peer = ForwardPeer(s, o.op, o.phase)
        /\ o.peer \in Procs
        /\ dp[o.peer].rank = s.rank + (IF (o.op = "isend") = (o.phase = 0) THEN 1 ELSE -1)
        /\ (o.peer = ForwardPeer(s, o.op, o.arg)) = ~s.is_in_second_half

\* a rank of the second half is sending activations of the phase passed as 0,
\* which are of shard 1, to the rank before it
C13_Witness ==
    \E g \in Procs : \E o \in ForwardOps(dp[g]) :
        /\ dp[g].is_in_second_half /\ dp[g].waiting
        /\ o.op = "isend" /\ o.arg = 0 /\ o.phase = 1 /\ o.peer = dp[g].prev_rank

\* the output slots <<phase, chunk_id>> of the pending forward sends, in order
PendingSends(s) ==
    LET f == SelectSeq(s.comm_ops, LAMBDA o : o.op = "isend" /\ o.kind = "F")
    IN  [n \in 1..Len(f) |-> <<f[n].phase, f[n].chunk_id>>]

\* the output slots of the forward sends rank g has issued so far
IssuedSends(g) ==
    UNION { {<<x[2], x[3]>> : x \in Range(TagsOfKind(isend[<<g, q>>], "F"))} : q \in Procs \ {g} }

\* C14: with return_outputs false the tensors marked for release (to_free)
\* are at every point exactly the outputs of the pending forward sends, so
\* nothing is marked without a posted send and a commit with nothing
\* pending has nothing to release; the tensors released are exactly the
\* outputs whose send has been issued and waited for, none of them while
\* the rank still waits on the batch that holds its send; a rank waits only
\* on a batch that is not empty; nothing is marked at the end of step();
\* with return_outputs true nothing is ever marked or released.
C14_ReleaseAtCommit ==
    \A g \in Procs :
        /\ \A s \in Objects(g) :
              /\ s.to_free = (IF s.return_outputs THEN << >> ELSE PendingSends(s))
              /\ s.return_outputs => s.freed = {}
              /\ s.freed \cap Range(PendingSends(s)) = {}
              /\ s.waiting => s.comm_ops # << >>
        /\ (Running(dp[g]) /\ ~dp[g].return_outputs) =>
              dp[g].freed = IssuedSends(g) \ (IF dp[g].waiting THEN Range(dp[g].to_free) ELSE {})
        /\ AtEnd(dp[g]) => dp[g].to_free = << >>

\* with return_outputs false a rank of four waits on a batch with a forward
\* send whose output is marked, after earlier outputs have been released
C14_Witness ==
    \E g \in Procs :
        /\ cfg.num_ranks = 4 /\ ~cfg.return_outputs
        /\ dp[g].waiting /\ dp[g].to_free # << >> /\ dp[g].freed # {}
        /\ Range(dp[g].to_free) \subseteq IssuedSends(g)

\* the fields _reset_states assigns
PerStepFields ==
    {"WeightGradStore", "input_chunks", "output_chunks", "input_grad_chunks",
     "output_grad_chunks", "labels", "loss_chunks", "criterion",
     "current_f_chunk_id", "current_b_chunk_id", "current_send_f_chunk_id",
     "current_send_b_chunk_id", "current_recv_f_chunk_id", "current_recv_b_chunk_id",
     "comm_ops", "to_free"}

\* q is some sequence written n times over
Repeats(q, n) ==
    LET len == Len(q) \div n
    IN  /\ Len(q) = len * n
        /\ \A m \in 1..Len(q) : m > len => q[m] = q[m - len]

\* C15: when step() has returned every field _reset_states assigns (the
\* queues, the cursors, the loss accumulator, the pending operations, the
\* tensors to release, the weight-gradient store) has the value it had
\* before the first step(); the pending operations were already none at
\* the end of step(), before the reset; and a later step() with the same
\* arguments makes the calls the step() before it made, in the same order:
\* at every point its trace is a prefix of the trace of the step() before,
\* at its return the two are equal, and what the rank has sent to and
\* received from each peer is one sequence once per step().
C15_ResetAndRepeat ==
    \A g \in Procs :
        /\ Returned(dp[g]) => \A f \in PerStepFields : dp[g][f] = StepFields(cfg)[f]
        /\ AtEnd(dp[g]) => dp[g].comm_ops = << >>
        /\ dp[g].steps > 0 => IsPrefix(dp[g].trace, dp[g].first)
        /\ (Returned(dp[g]) /\ dp[g].steps > 0) =>
              /\ dp[g].trace = dp[g].first
              /\ \A q \in Procs \ {g} :
                    /\ Repeats(isend[<<g, q>>], dp[g].steps + 1)
                    /\ Repeats(irecv[<<g, q>>], dp[g].steps + 1)

\* a rank in the middle has returned from its second gradient-tracking
\* step(), in which it has sent to both its neighbours
C15_Witness ==
    \E g \in Procs :
        /\ ~cfg.forward_only /\ dp[g].is_middle_rank
        /\ Returned(dp[g]) /\ dp[g].steps = 1 /\ dp[g].trace # << >>
        /\ isend[<<g, dp[g].prev_rank>>] # << >> /\ isend[<<g, dp[g].next_rank>>] # << >>

\* the argument rank_mapping as __init__ uses it
GivenMapping ==
    IF cfg.given THEN cfg.rank_mapping ELSE default_rank_mapping(cfg.num_ranks)

\* process g has its object, built from a permutation (or from no mapping)
Constructed(g) ==
    /\ g \in DOMAIN dp /\ "raises" \notin DOMAIN dp[g]
    /\ GivenMapping \in RankMappings(cfg.num_ranks)

\* C16 as stated: rank_mapping lists, slot by slot, the group rank of the
\* process at that slot: the rank r of the object of process g is the slot
\* that holds g, prev_rank is the entry of slot r - 1 and next_rank the
\* entry of slot r + 1 (None at the ends); without a mapping rank is g.
C16_Original ==
    \A g \in Procs :
        LET r == dp[g].rank
        IN  Constructed(g) =>
            /\ GivenMapping[r + 1] = g
            /\ dp[g].prev_rank = (IF r = 0 THEN None ELSE GivenMapping[r])
            /\ dp[g].next_rank = (IF r = cfg.num_ranks - 1 THEN None ELSE GivenMapping[r + 2])
            /\ ~cfg.given => r = g

\* the process whose entry in rank_mapping is r, None if there is none
Holder(r) ==
    IF \E q \in 0..(cfg.num_ranks - 1) : GivenMapping[q + 1] = r
    THEN CHOOSE q \in 0..(cfg.num_ranks - 1) : GivenMapping[q + 1] = r
    ELSE None

\* C16 (amended): rank_mapping lists, process by process, the rank of each
\* process of the group: the rank r of the object of process g is the
\* entry at g, prev_rank is the process whose entry is r - 1 and next_rank
\* the process whose entry is r + 1 (None at the ends), first_rank and
\* last_rank the processes whose entries are 0 and num_ranks - 1; without a
\* mapping rank is g.
C16_RankOfProcess ==
    \A g \in Procs :
        LET r == dp[g].rank
        IN  Constructed(g) =>
            /\ r = GivenMapping[g + 1]
            /\ dp[g].prev_rank = (IF r = 0 THEN None ELSE Holder(r - 1))
            /\ dp[g].next_rank = (IF r = cfg.num_ranks - 1 THEN None ELSE Holder(r + 1))
            /\ dp[g].first_rank = Holder(0)
            /\ dp[g].last_rank = Holder(cfg.num_ranks - 1)
            /\ ~cfg.given => r = g

\* every process of four has its object, under a mapping that is not its
\* own inverse
C16_Witness ==
    /\ cfg.given /\ cfg.num_ranks = 4 /\ cfg.on_device
    /\ \E i \in 1..4 : cfg.rank_mapping[cfg.rank_mapping[i] + 1] # i - 1
    /\ Procs = 0..3

\* rank g is in, or past, the first iteration of step 4
InStep4(g) == dp[g].iters[4] >= 1

\* C17: with num_ranks >= 4 the middle ranks are the ranks num_ranks / 2 - 1
\* and num_ranks / 2, and the calls of the first iteration of step 4 leave
\* no rank waiting for ever: whenever no rank can go on, every rank has
\* returned from step(), the middle ranks through their first iteration of
\* step 4, and no rank has raised an exception.  (Every action takes a rank
\* forward, so a run stops only where no rank can go on.)
C17_NoCircularWait ==
    cfg.num_ranks >= 4 =>
        /\ \A g \in Procs :
              /\ dp[g].is_middle_rank =
                    (dp[g].rank \in {cfg.num_ranks \div 2 - 1, cfg.num_ranks \div 2})
              /\ Ok(dp[g])
        /\ Quiescent =>
              /\ AllReturned
              /\ \A g \in Procs : dp[g].is_middle_rank => InStep4(g)

\* with four ranks, in gradient-tracking mode on modules without the fused
\* pass, both middle ranks are through the first iteration of step 4 and
\* every rank has returned
C17_Witness ==
    /\ cfg.num_ranks = 4 /\ ~cfg.forward_only /\ ~cfg.overlaped
    /\ dp[1].is_middle_rank /\ dp[2].is_middle_rank
    /\ InStep4(1) /\ InStep4(2)
    /\ AllReturned

\* the calls of _backward_compute_chunk made by _backward_chunk so far in
\* this step(), in order
BackwardCalls(s) == SelectSeq(s.trace, LAMBDA c : c.op = "_backward_compute_chunk")

\* how many of them come before step 6: one per iteration of steps 3 and 5,
\* and one in the first iteration of step 4 on a middle rank
BeforeStep6(s) ==
    LET h == half_rank_of(s.num_ranks, s.rank)
    IN  step_3(num_half_ranks_of(s.num_ranks), h)
        + (IF s.is_middle_rank THEN 1 ELSE 0)
        + step_5(num_half_ranks_of(s.num_ranks), h)

\* the backward computes before step 6, fused ones included, and the units
\* flushed to the queue of the store before step 6
ComputedBeforeStep6(s) ==
    LET h == half_rank_of(s.num_ranks, s.rank)
    IN  step_3(num_half_ranks_of(s.num_ranks), h)
        + 2 * step_4(half_num_chunks_of(s.num_chunks), s.num_ranks, h)
        + 2 * step_5(num_half_ranks_of(s.num_ranks), h)

FlushedBeforeStep6(s) == step_3(num_half_ranks_of(s.num_ranks), half_rank_of(s.num_ranks, s.rank))

\* C18: in gradient-tracking mode the n-th backward compute of step 6
\* (n = 1 .. 2 * (half_rank + 1)) is of direction 1 for odd n and of
\* direction 0 for even n, and is passed enable_zb = True exactly when
\* n > half_rank + 1: the first one passed True is number half_rank + 2, in
\* iteration (half_rank + 1) \div 2, which is the direction-1 backward for
\* odd half_rank and the direction-0 backward for even half_rank, and all
\* later ones are passed True; at every point of step 6 the local variable
\* enable_zb is on only after half_rank + 1 backward computes of the step
\* and always after more, and the units flushed to the store in step 6 are
\* as many as the backward computes of step 6 beyond the first
\* half_rank + 1: half_rank + 1 at its end.
C18_ZeroBubbleSwitch ==
    \A g \in Procs :
        (~cfg.forward_only) =>
            LET h == HalfRank(g)
                calls == BackwardCalls(dp[g])
                before == BeforeStep6(dp[g])
            IN  /\ \A n \in 1..(2 * step_6(h)) :
                      before + n <= Len(calls) =>
                          /\ calls[before + n].phase = n % 2
                          /\ (calls[before + n].zb = "True") = (n > h + 1)
                          /\ (n = h + 2) =>
                                /\ (n - 1) \div 2 = (h + 1) \div 2
                                /\ (h % 2 = 1) = (calls[before + n].phase = 1)
                /\ \A s \in Objects(g) :
                      LET done == computeB(s, 0) + computeB(s, 1) - ComputedBeforeStep6(s)
                          deferred == Len(s.flushed) - FlushedBeforeStep6(s)
                      IN  (Running(s) /\ s.pc.k = 6) =>
                              /\ done \in 0..(2 * step_6(h))
                              /\ deferred = (IF done > h + 1 THEN done - (h + 1) ELSE 0)
                              /\ s.enable_zb => done >= h + 1
                              /\ done > h + 1 => s.enable_zb
                /\ (Running(dp[g]) /\ dp[g].pc.k > 6) =>
                      /\ Len(calls) >= before + 2 * step_6(h)
                      /\ Len(dp[g].flushed) >= FlushedBeforeStep6(dp[g]) + h + 1

\* with four ranks rank 1 (half_rank 1, odd) and rank 3 (half_rank 0, even)
\* are past step 6 of a gradient-tracking step
C18_Witness ==
    /\ cfg.num_ranks = 4 /\ ~cfg.forward_only
    /\ Running(dp[1]) /\ dp[1].pc.k > 6 /\ Len(BackwardCalls(dp[1])) >= BeforeStep6(dp[1]) + 4
    /\ Running(dp[3]) /\ dp[3].pc.k > 6 /\ Len(BackwardCalls(dp[3])) >= BeforeStep6(dp[3]) + 2

\* the slots of a queue that hold the buffers of a receive not yet completed
Placeholders(chunks) == {n - 1 : n \in {m \in 1..Len(chunks) : chunks[m] = "recv"}}

\* the slots the pending receives of kind k and shard p will fill
PendingRecvs(s, k, p) ==
    {o.chunk_id : o \in {c \in Range(s.comm_ops) : c.op = "irecv" /\ c.kind = k /\ c.phase = p}}

\* C19: no compute reads the buffers of a receive that has not completed,
\* and none reads past the end of its queue: at every point the slots of
\* input_chunks (output_grad_chunks) that still hold uncommitted buffers are
\* exactly the slots of the pending forward (backward) receives, they are
\* slots of the queue, and all of them lie at or above the forward
\* (backward) compute cursor, so a commit stands between the posting of a
\* receive and the compute that reads its slot.
C19_ComputeAfterReceive ==
    \A g \in Procs : \A s \in Objects(g) :
        /\ s.stale_reads = 0
        /\ s.err # "IndexError"
        /\ \A p \in {0, 1} :
              LET forward == PendingRecvs(s, "F", p)
                  backward == PendingRecvs(s, "B", p)
              IN
              /\ Placeholders(At(s.input_chunks, p)) = forward
              /\ Placeholders(At(s.output_grad_chunks, p)) = backward
              /\ \A k \in forward :
                    k >= computeF(s, p) /\ k < Len(At(s.input_chunks, p))
              /\ \A k \in backward :
                    k >= computeB(s, p) /\ k < Len(At(s.output_grad_chunks, p))
              /\ computeF(s, p) <= Len(At(s.input_chunks, p))
              /\ (~s.forward_only /\ ~is_last_stage(s, p)) =>
                    computeB(s, p) <= Len(At(s.output_grad_chunks, p))

\* a rank that has computed forward and backward chunks waits for a forward
\* and a backward receive whose slots hold buffers not yet filled
C19_Witness ==
    \E g \in Procs : \E p \in {0, 1} : \E q \in {0, 1} :
        /\ dp[g].waiting
        /\ computeF(dp[g], p) > 0 /\ computeB(dp[g], q) > 0
        /\ Placeholders(At(dp[g].input_chunks, p)) # {}
        /\ Placeholders(At(dp[g].output_grad_chunks, q)) # {}

\* the rank of object s has no stage before it (after it) on shard p: the
\* first rank for shard 0 and the last rank for shard 1 (the last rank for
\* shard 0 and the first rank for shard 1)
StartsShard(s, p) == IF p = 0 THEN s.rank = 0 ELSE s.rank = s.num_ranks - 1

EndsShard(s, p) == IF p = 0 THEN s.rank = s.num_ranks - 1 ELSE s.rank = 0

\* C20: at the end of a gradient-tracking step(), before the reset, on every
\* rank and for each shard: computeF and computeB are num_chunks / 2; recvF
\* and sendB are num_chunks / 2, but 0 on the rank that starts the shard
\* (the first rank for shard 0, the last rank for shard 1); sendF and recvB
\* are num_chunks / 2, but 0 on the rank that ends it (the last rank for
\* shard 0, the first rank for shard 1).
C20_EndCounts ==
    \A g \in Procs : \A p \in {0, 1} :
        (AtEnd(dp[g]) /\ ~dp[g].forward_only) =>
            /\ computeF(dp[g], p) = Half /\ computeB(dp[g], p) = Half
            /\ recvF(dp[g], p) = (IF StartsShard(dp[g], p) THEN 0 ELSE Half)
            /\ sendB(dp[g], p) = (IF StartsShard(dp[g], p) THEN 0 ELSE Half)
            /\ sendF(dp[g], p) = (IF EndsShard(dp[g], p) THEN 0 ELSE Half)
            /\ recvB(dp[g], p) = (IF EndsShard(dp[g], p) THEN 0 ELSE Half)

\* the first rank, a middle rank and the last rank of four are at the end of
\* a gradient-tracking step() of ten chunks
C20_Witness ==
    /\ cfg.num_ranks = 4 /\ cfg.num_chunks = 10 /\ ~cfg.forward_only
    /\ AtEnd(dp[0]) /\ AtEnd(dp[1]) /\ AtEnd(dp[3])
    /\ recvF(dp[0], 0) = 0 /\ recvF(dp[0], 1) = 5 /\ sendF(dp[3], 0) = 0 /\ recvF(dp[1], 0) = 5

\* what rank a has issued as sends to rank b and what b has issued as
\* receives from a agree, message by message, as far as both go
SameSoFar(a, b) ==
    \A n \in 1..Len(isend[<<a, b>>]) :
        n <= Len(irecv[<<b, a>>]) => isend[<<a, b>>][n] = irecv[<<b, a>>][n]

\* C21: for every ordered pair of ranks (a, b) the n-th send a issues to b
\* and the n-th receive b issues from a are of the same kind, shard and
\* chunk, and once no rank can go on the two sequences are the same, in
\* length and in order (stated as in the claim, for every even
\* num_ranks >= 2; the lengths differ for num_ranks = 2).
C21_SendsMatchReceives ==
    \A a \in Procs : \A b \in Procs \ {a} :
        /\ SameSoFar(a, b)
        /\ Quiescent => isend[<<a, b>>] = irecv[<<b, a>>]

\* the chunks of shard p whose forward compute has run and whose backward
\* compute has not
AwaitingBackward(s, p) == {k \in 0..(computeF(s, p) - 1) : k >= computeB(s, p)}

\* slot k of a queue is there and holds tensors
Present(chunks, k) == InRange(chunks, k) /\ chunks[k + 1] # "None"

\* C22: in a gradient-tracking step(), after every call of every rank and
\* for each shard, computeB <= computeF, and no backward compute has found
\* a slot missing or emptied: for every chunk k computed forward and not
\* yet backward, on the last stage of the shard loss_chunks has an entry k,
\* and elsewhere slot k of output_chunks and slot k of input_chunks are
\* there and not None; the input slots are set to None only by the
\* backward compute of their chunk.
C22_BackwardAfterForward ==
    \A g \in Procs : \A s \in Objects(g) : \A p \in {0, 1} :
        (~s.forward_only) =>
            /\ computeB(s, p) <= computeF(s, p)
            /\ s.err \notin {"IndexError", "TypeError"}
            /\ \A k \in AwaitingBackward(s, p) :
                  /\ Present(At(s.input_chunks, p), k)
                  /\ IF is_last_stage(s, p)
                     THEN s.criterion => InRange(s.loss_chunks, k)
                     ELSE Present(At(s.output_chunks, p), k)
            /\ \A k \in 0..(computeB(s, p) - 1) : At(s.input_chunks, p)[k + 1] = "None"

\* a middle rank has chunks of both shards computed forward and awaiting
\* their backward compute, after backward computes on both shards
C22_Witness ==
    \E g \in Procs :
        /\ ~cfg.forward_only /\ dp[g].is_middle_rank
        /\ computeB(dp[g], 0) > 0 /\ computeB(dp[g], 1) > 0
        /\ AwaitingBackward(dp[g], 0) # {} /\ AwaitingBackward(dp[g], 1) # {}

\* the units flushed to the queue of the store by the end of each phase, as
\* the schedule of the rank of object s has it: one per iteration of step
\* 3, half_rank + 1 in step 6, one per iteration of step 7
FlushedBy(s, k) ==
    LET h == half_rank_of(s.num_ranks, s.rank)
        n == num_half_ranks_of(s.num_ranks)
    IN  (IF k >= 3 THEN step_3(n, h) ELSE 0)
        + (IF k >= 6 THEN h + 1 ELSE 0)
        + (IF k >= 7 THEN step_7(n, h) ELSE 0)

\* C23: in a gradient-tracking step(), after every call of every rank, the
\* queue of the store holds at most half_rank + 1 units; units are flushed
\* to it in steps 3, 6 and 7 only (after a call of steps 1, 2, 4, 5 and 8
\* the units flushed so far are those of the steps before), one for each
\* call of _backward_compute_chunk that was passed enable_zb = True and for
\* no other call, the fused ones included; and WeightGradStore.enabled is
\* off and the cache empty after every call, so at every commit.
C23_DeferredUnits ==
    \A g \in Procs :
        (~cfg.forward_only) =>
            /\ \A s \in Objects(g) :
                  /\ Len(s.WeightGradStore.funcs_queue) <= HalfRank(g) + 1
                  /\ ~s.WeightGradStore.enabled
                  /\ s.WeightGradStore.cache = << >>
                  /\ Running(s) =>
                        /\ Len(s.flushed) >= FlushedBy(s, s.pc.k - 1)
                        /\ Len(s.flushed) <= FlushedBy(s, s.pc.k)
                        /\ s.pc.k \notin {3, 6, 7} => Len(s.flushed) = FlushedBy(s, s.pc.k)
            /\ Len(dp[g].flushed) =
                  Len(SelectSeq(dp[g].trace,
                                LAMBDA c : c.op = "_backward_compute_chunk" /\ c.zb = "True"))

\* in a fused step of four ranks rank 1 (half_rank 1) waits with two units
\* on the queue, and rank 0 (half_rank 0) has had one on it after the unit
\* of its step 3 was flushed and popped
C23_Witness ==
    /\ cfg.num_ranks = 4 /\ ~cfg.forward_only /\ cfg.overlaped
    /\ Running(dp[1]) /\ dp[1].pc.k > 5
    /\ Len(dp[1].WeightGradStore.funcs_queue) = 2
    /\ \E s \in Objects(0) :
          /\ Running(s) /\ s.pc.k > 5
          /\ Len(s.WeightGradStore.funcs_queue) = 1 /\ s.popped # << >>

====
